---- MODULE Spec2Model ----
(***************************************************************************)
(* A model of the easebox backend's identity core:                         *)
(*   - RequestService        (the resilient request client),               *)
(*   - OAuthAuthService      (authenticateWithOAuth, unlinkProvider),      *)
(*   - AuthService           (registerIndividual, registerCompany, login), *)
(*   - IdVerificationService (verifyId) and its verification provider,     *)
(* over the relational store described by the drizzle schema.              *)
(*                                                                         *)
(* Every service call is a task that suspends at each `await`; one action  *)
(* of the model is the code between two suspension points.  The request    *)
(* client shares no state with other tasks, so one of its calls is one     *)
(* action and its recursion is a RECURSIVE operator.                       *)
(***************************************************************************)
EXTENDS Integers, Sequences, FiniteSets, TLC

VARIABLES
    users,        \* rows of table users
    profiles,     \* rows of table individual_profiles
    companies,    \* rows of table company_profiles
    identities,   \* rows of table oauth_identities
    procs,        \* the tasks: one record per task (operation, position, locals)
    calls,        \* number of service calls started so far
    born,         \* history: the provider identities a new user was created for
    rq,           \* the last call of the request client and what it did
    backoff       \* the last backoff delay computed, and from what

vars ==
    <<users, profiles, companies, identities, procs, calls, born, rq, backoff>>

\* The state of the request client.
client == <<rq, backoff>>

storeVars == <<users, profiles, companies, identities>>

(***************************************************************************)
(* Strings are sequences of characters, so that toLowerCase and trim are   *)
(* computed and not assumed.                                               *)
(***************************************************************************)
LowerChar(c) ==
    IF c = "A" THEN "a" ELSE IF c = "B" THEN "b" ELSE c

ToLowerCase(s) == [i \in DOMAIN s |-> LowerChar(s[i])]

RECURSIVE TrimStart(_)
TrimStart(s) ==
    IF s # <<>> /\ Head(s) = " " THEN TrimStart(Tail(s)) ELSE s

RECURSIVE TrimEnd(_)
TrimEnd(s) ==
    IF s # <<>> /\ s[Len(s)] = " " THEN TrimEnd(SubSeq(s, 1, Len(s) - 1)) ELSE s

Trim(s) == TrimEnd(TrimStart(s))

(***************************************************************************)
(*                        RESILIENT REQUEST CLIENT                         *)
(***************************************************************************)

\* Largest per-call maxRetries the model tries.
MaxRetriesIn == 2

\* DEFAULT_RETRY_CONFIG
DefaultMaxRetries == 3

DefaultRetryableStatusCodes == {408, 429, 500, 502, 503, 504}

DefaultRetryableErrors == {"ECONNRESET", "ETIMEDOUT", "ENOTFOUND", "ECONNREFUSED"}

DEFAULT_RETRY_CONFIG ==
    [enabled |-> FALSE, maxRetries |-> DefaultMaxRetries,
     retryableStatusCodes |-> DefaultRetryableStatusCodes,
     retryableErrors |-> DefaultRetryableErrors]

\* What one HTTP attempt can end in: a response, or a thrown value.  status 0
\* and code "" stand for an absent status / code (both falsy, as in the code).
Response == [type |-> "response", status |-> 200, code |-> "", message |-> "",
             dataMessage |-> ""]

AxiosStatusError(status, dataMessage) ==
    [type |-> "axios", status |-> status, code |-> "ERR_BAD_RESPONSE",
     message |-> "Request failed with status code", dataMessage |-> dataMessage]

AxiosTransportError(code) ==
    [type |-> "axios", status |-> 0, code |-> code,
     message |-> "transport failure", dataMessage |-> ""]

PlainError == [type |-> "error", status |-> 0, code |-> "", message |-> "boom",
               dataMessage |-> ""]

Outcomes ==
    { Response,
      AxiosStatusError(503, "unavailable"),
      AxiosStatusError(404, ""),
      AxiosTransportError("ECONNRESET"),
      AxiosTransportError("EPIPE"),
      PlainError }

Failures == Outcomes \ {Response}

\* An absent retryableStatusCodes and an absent retryableErrors.
UndefinedStatusCodes == {-1}

UndefinedErrors == {"undefined"}

\* The per-call retry option: absent (present = FALSE), or a partial
\* RetryConfig whose absent fields are "undefined" (enabled), -1 (maxRetries)
\* and the two sets above.
NoRetryOption ==
    [present |-> FALSE, enabled |-> "undefined", maxRetries |-> -1,
     retryableStatusCodes |-> UndefinedStatusCodes,
     retryableErrors |-> UndefinedErrors]

\* The per-call sets tried name a status and an error code the defaults leave
\* out, and leave out those the defaults name.
RetryOptions ==
    {NoRetryOption}
    \cup [present : {TRUE}, enabled : {"true", "false", "undefined"},
          maxRetries : (-1) .. MaxRetriesIn,
          retryableStatusCodes : {UndefinedStatusCodes, {404}},
          retryableErrors : {UndefinedErrors, {"EPIPE"}}]

\* The network's answers to the attempts of one call, in order.
ScriptLen == (IF MaxRetriesIn > DefaultMaxRetries THEN MaxRetriesIn
              ELSE DefaultMaxRetries) + 1

Scripts == [1 .. ScriptLen -> Outcomes]

mergeRetryConfig(retry) ==
    IF ~retry.present
    THEN DEFAULT_RETRY_CONFIG
    ELSE [enabled |-> IF retry.enabled = "undefined"
                      THEN DEFAULT_RETRY_CONFIG.enabled
                      ELSE retry.enabled = "true",
          maxRetries |-> IF retry.maxRetries = -1
                         THEN DEFAULT_RETRY_CONFIG.maxRetries
                         ELSE retry.maxRetries,
          retryableStatusCodes |->
              IF retry.retryableStatusCodes = UndefinedStatusCodes
              THEN DEFAULT_RETRY_CONFIG.retryableStatusCodes
              ELSE retry.retryableStatusCodes,
          retryableErrors |->
              IF retry.retryableErrors = UndefinedErrors
              THEN DEFAULT_RETRY_CONFIG.retryableErrors
              ELSE retry.retryableErrors]

isRetryableError(status, code, responseStatus) ==
    \/ status # 0 /\ status \in DefaultRetryableStatusCodes
    \/ responseStatus # 0 /\ responseStatus \in DefaultRetryableStatusCodes
    \/ code # "" /\ code \in DefaultRetryableErrors

\* handleError: the RequestError made of a thrown value.  A RequestError is a
\* plain object: it is neither an axios error nor an instance of Error.
handleError(error) ==
    IF error.type = "axios"
    THEN [type |-> "RequestError",
          message |-> IF error.dataMessage # "" THEN error.dataMessage
                      ELSE IF error.message # "" THEN error.message
                      ELSE "Request failed",
          status |-> error.status,
          code |-> error.code,
          isRetryable |-> isRetryableError(error.status, error.code, error.status)]
    ELSE IF error.type = "error"
    THEN [type |-> "RequestError", message |-> error.message, status |-> 0,
          code |-> "", isRetryable |-> FALSE]
    ELSE [type |-> "RequestError", message |-> "Unknown error occurred",
          status |-> 0, code |-> "", isRetryable |-> FALSE]

\* The result of a call: what it returned or raised, the HTTP attempts made
\* and the backoff sleeps taken (the attempt number each sleep followed).
NoError == [type |-> "none", message |-> "", status |-> 0, code |-> "",
            isRetryable |-> FALSE]

Returned(n, sleeps) ==
    [outcome |-> "returned", error |-> NoError, attempts |-> n, sleeps |-> sleeps]

Raised(e, n, sleeps) ==
    [outcome |-> "raised", error |-> e, attempts |-> n, sleeps |-> sleeps]

\* executeRequest: one attempt; a failure is thrown as handleError(failure).
executeRequest(script, n) ==
    IF script[n].type = "response"
    THEN Returned(n, <<>>)
    ELSE Raised(handleError(script[n]), n, <<>>)

\* executeWithRetry(config, retryConfig, attempt), the sleeps so far carried
\* along.  What it catches is what executeRequest threw.
RECURSIVE executeWithRetry(_, _, _, _)
executeWithRetry(script, retryConfig, attempt, sleeps) ==
    LET r == executeRequest(script, attempt) IN
    IF r.outcome = "returned"
    THEN Returned(attempt, sleeps)
    ELSE LET requestError == handleError(r.error) IN
         IF attempt <= retryConfig.maxRetries /\ requestError.isRetryable
         THEN executeWithRetry(script, retryConfig, attempt + 1,
                               Append(sleeps, attempt))
         ELSE Raised(requestError, attempt, sleeps)

\* --- calculateBackoffDelay(attempt, baseDelay) ---

\* Attempt numbers and base delays (ms) the delay is computed for, and the
\* number of values Math.random() takes: k / JitterSteps for k < JitterSteps.
MaxAttempt == 6

JitterSteps == 10

BaseDelays == {0, 1, 1000, 25000, 30000, 40000}

\* Delays are kept exact, as integers: Scale units to the millisecond.
Scale == 10 * JitterSteps

\* The cap, in ms.
MaxBackoffDelay == 30000

RECURSIVE Pow2(_)
Pow2(n) == IF n = 0 THEN 1 ELSE 2 * Pow2(n - 1)

Min(a, b) == IF a <= b THEN a ELSE b

\* A delay that is never capped.
calculateBackoffDelayUncapped(attempt, baseDelay, k) ==
    LET exponentialDelay == baseDelay * Pow2(attempt - 1)
    IN  exponentialDelay * Scale + k * 3 * exponentialDelay

\* calculateBackoffDelay, with Math.random() = k / JitterSteps; in 1/Scale ms.
\* jitter = random * 0.3 * exponentialDelay = k * 3 * exponentialDelay / Scale
calculateBackoffDelay(attempt, baseDelay, k) ==
    LET exponentialDelay == baseDelay * Pow2(attempt - 1)
        jitter == k * 3 * exponentialDelay
    IN  Min(exponentialDelay * Scale + jitter, MaxBackoffDelay * Scale)

NoBackoff == [attempt |-> 0, baseDelay |-> 0, random |-> 0, delay |-> 0]

\* One computation of the delay before the retry that follows attempt.
Backoff(attempt, baseDelay, k) ==
    /\ backoff = NoBackoff
    /\ backoff' = [attempt |-> attempt, baseDelay |-> baseDelay, random |-> k,
                   delay |-> calculateBackoffDelay(attempt, baseDelay, k)]
    /\ UNCHANGED <<users, profiles, companies, identities, procs, calls, born, rq>>

\* sleep(delay) is over.
BackoffSlept ==
    /\ backoff # NoBackoff
    /\ backoff' = NoBackoff
    /\ UNCHANGED <<users, profiles, companies, identities, procs, calls, born, rq>>

\* A request that takes the retry path whatever the merged configuration says.
requestIgnoringEnabled(retry, script) ==
    executeWithRetry(script, mergeRetryConfig(retry), 1, <<>>)

\* request: the core request method.
request(retry, script) ==
    LET retryConfig == mergeRetryConfig(retry) IN
    IF ~retryConfig.enabled
    THEN executeRequest(script, 1)
    ELSE executeWithRetry(script, retryConfig, 1, <<>>)

NoRequest == [retry |-> NoRetryOption, script |-> <<>>,
              result |-> [outcome |-> "none", error |-> NoError, attempts |-> 0,
                          sleeps |-> <<>>]]

\* One call of get/post/put/patch/delete, from its start to its return or throw.
Request(retry, script) ==
    /\ rq = NoRequest
    /\ rq' = [retry |-> retry, script |-> script, result |-> request(retry, script)]
    /\ UNCHANGED <<users, profiles, companies, identities, procs, calls, born,
                   backoff>>

(***************************************************************************)
(*                     THE STORE AND ITS REPOSITORIES                      *)
(***************************************************************************)

\* Tasks that can be in flight at once, and service calls per behaviour.
NumTasks == 2

MaxCalls == 2

Tasks == 1 .. NumTasks

\* OAuthProvider
Providers == {"apple", "google"}

\* users.password is nullable; a stored password is the hash of a plaintext.
Null == <<>>

hashPassword(password) == <<"hash", password>>

\* The absent row (undefined), one per table.
NoUser == [id |-> 0, email |-> <<>>, password |-> Null, userType |-> "none",
           emailVerified |-> FALSE, isActive |-> FALSE]

NoIdentity == [userId |-> 0, provider |-> "none", providerAccountId |-> "none"]

NoCompany == [userId |-> 0, rcNumber |-> <<>>, companyName |-> <<>>,
              address |-> <<>>]

\* A raw response of the verification API, as far as transform reads it: ""
\* and <<>> stand for an absent field, nin_data for the presence of that object
\* and data.present for the presence of data with a company_name key.
NoResponse ==
    [status |-> FALSE, response_code |-> "", detail |-> "", message |-> "",
     error |-> "", nin_data |-> FALSE,
     data |-> [present |-> FALSE, company_name |-> <<>>, branchAddress |-> <<>>],
     company_name |-> <<>>, address |-> <<>>]

\* result[0] of a query: the row found, or the absent row.
First(rows, absent) == IF rows = {} THEN absent ELSE CHOOSE r \in rows : TRUE

\* id: uuid defaultRandom(): an id no row of the table has.
NewUserId == Cardinality(users) + 1

\* A lookup that compares the email as it was typed.
findByEmailAsTyped(email) == First({u \in users : u.email = email}, NoUser)

\* UserRepository
findByEmail(email) ==
    First({u \in users : u.email = ToLowerCase(email)}, NoUser)

existsByEmail(email) == findByEmail(email) # NoUser

findById(id) == First({u \in users : u.id = id}, NoUser)

\* A table without the constraint.
UserInsertAllowedAlways(row) == TRUE

\* users.email is unique.
UserInsertAllowed(row) == \A u \in users : u.email # row.email

\* The row insert(users).values(data).returning() gives back; columns that
\* data leaves out take the schema's defaults.
NewUser(email, password, userType, emailVerified) ==
    [id |-> NewUserId, email |-> email, password |-> password,
     userType |-> userType, emailVerified |-> emailVerified, isActive |-> TRUE]

\* IndividualProfileRepository
findProfileByUserId(userId) == {p \in profiles : p.userId = userId}

\* individual_profiles.user_id is unique.
ProfileInsertAllowed(row) == \A p \in profiles : p.userId # row.userId

\* A lookup that finds no company.
findByRcNumberNobody(rcNumber) == {}

\* CompanyProfileRepository
findByRcNumber(rcNumber) == {c \in companies : c.rcNumber = rcNumber}

\* company_profiles.rc_number and company_profiles.user_id are unique.
CompanyInsertAllowed(row) ==
    \A c \in companies : c.rcNumber # row.rcNumber /\ c.userId # row.userId

\* OAuthIdentityRepository
findByProviderAndAccountId(provider, providerAccountId) ==
    First({i \in identities : /\ i.provider = provider
                              /\ i.providerAccountId = providerAccountId},
          NoIdentity)

findByUserId(userId) == {i \in identities : i.userId = userId}

findByUserIdAndProvider(userId, provider) ==
    First({i \in identities : i.userId = userId /\ i.provider = provider},
          NoIdentity)

\* A lookup that matches the provider alone would be told apart only by a second
\* account id; one that finds nobody is told apart by any returning user.
findUserByProviderIdentityNobody(provider, providerAccountId) == NoUser

findUserByProviderIdentity(provider, providerAccountId) ==
    First({u \in users :
              \E i \in identities : /\ i.userId = u.id
                                    /\ i.provider = provider
                                    /\ i.providerAccountId = providerAccountId},
          NoUser)

\* A table without the two constraints.
IdentityInsertAllowedAlways(row) == TRUE

\* oauth_identities_user_provider_unique, oauth_identities_provider_account_unique
IdentityInsertAllowed(row) ==
    \A i \in identities :
        /\ ~(i.userId = row.userId /\ i.provider = row.provider)
        /\ ~(i.provider = row.provider
             /\ i.providerAccountId = row.providerAccountId)

(***************************************************************************)
(*                               THE TASKS                                 *)
(***************************************************************************)
NoInput == [email |-> <<>>, emailVerified |-> FALSE, provider |-> "none",
            providerAccountId |-> "none", userId |-> 0, rcNumber |-> <<>>,
            termsAccepted |-> FALSE, password |-> "", idNumber |-> <<>>,
            idType |-> "none"]

\* What a call ends with: the error thrown (kind: its class; code, message), or
\* kind "ok" and the user_id returned, with the payload of the tokens where the
\* model keeps it.
NoResult == [kind |-> "none", code |-> "", userId |-> 0, message |-> "",
             email |-> <<>>, userType |-> "none"]

NoStore == [users |-> {}, profiles |-> {}, companies |-> {}, identities |-> {}]

Store == [users |-> users, profiles |-> profiles, companies |-> companies,
          identities |-> identities]

\* A task: the operation it runs (op), the await it is suspended at (pc), the
\* call's input, its locals (user: the user row it holds; linkUserId, ret: the
\* arguments of linkOAuthIdentity and where it returns to) and its result.
\* History, read by the properties only: pre and solo (the store when the call
\* started, and whether no other task has written since), lpre, lsolo and link
\* (the same for the call's linkOAuthIdentity, and how far that has come:
\* "none", "running", "returned" or "threw").  mail is what became of the
\* email-verification dispatch of a registration: "none", "sent" or "failed".
\* Of a verifyId call: company is the company profile it loaded, response the
\* raw response its provider call returned, providerCalls the provider calls it
\* made and raised whether the HTTP call behind the last of them threw.
Idle == [op |-> "none", pc |-> "idle", in |-> NoInput, user |-> NoUser,
         linkUserId |-> 0, ret |-> "", res |-> NoResult, mail |-> "none",
         pre |-> NoStore, solo |-> FALSE,
         lpre |-> {}, lsolo |-> FALSE, link |-> "none",
         company |-> NoCompany, response |-> NoResponse, providerCalls |-> 0,
         raised |-> FALSE]

Running(t) == procs[t].pc \notin {"idle", "done"}

\* A write of task t: every other task's call is no longer undisturbed (and the
\* store it started from is of no more use to the properties).
Disturb(t, ps) ==
    [x \in Tasks |-> IF x = t THEN ps[x]
                     ELSE [ps[x] EXCEPT !.solo = FALSE, !.lsolo = FALSE,
                                        !.pre = NoStore, !.lpre = {}]]

\* Task t moves on, with or without a write to the store.
Goto(t, rec) == procs' = [procs EXCEPT ![t] = rec]

GotoWriting(t, rec) == procs' = Disturb(t, [procs EXCEPT ![t] = rec])

\* The call of task t ends: it returns (kind "ok") or throws.
End(p, kind, code, userId) ==
    [p EXCEPT !.pc = "done", !.user = NoUser, !.ret = "",
              !.res = [NoResult EXCEPT !.kind = kind, !.code = code,
                                       !.userId = userId]]

\* A call starts in a task that runs none: a fresh one (the lowest, tasks being
\* interchangeable) or one whose last call has ended and handed over its result.
Start(t, op, pc, in) ==
    /\ procs[t].pc \in {"idle", "done"}
    /\ \A x \in 1 .. t - 1 : procs[x].pc # "idle"
    /\ calls < MaxCalls
    /\ calls' = calls + 1
    /\ procs' = [procs EXCEPT ![t] =
                    [Idle EXCEPT !.op = op, !.pc = pc, !.in = in,
                                 !.pre = Store, !.solo = TRUE]]
    /\ UNCHANGED <<users, profiles, companies, identities, born, client>>

(***************************************************************************)
(*                            OAuthAuthService                             *)
(***************************************************************************)

\* --- linkOAuthIdentity(userId, provider, providerAccountId, providerEmail) ---

\* The call of linkOAuthIdentity for the user the task holds; ret is where the
\* caller goes on.
CallLink(p, ret) ==
    [p EXCEPT !.pc = "findByProviderAndAccountId", !.linkUserId = p.user.id,
              !.ret = ret, !.lpre = identities, !.lsolo = TRUE,
              !.link = "running"]

\* A link that never sees a conflict.
LinkedToOtherUserNever(existingIdentity, userId) == FALSE

\* existingIdentity && existingIdentity.userId !== userId
LinkedToOtherUser(existingIdentity, userId) ==
    existingIdentity # NoIdentity /\ existingIdentity.userId # userId

\* A link that inserts without looking at what the user has linked.
MustCreateIdentityAlways(userProviderIdentity) == TRUE

\* !userProviderIdentity
MustCreateIdentity(userProviderIdentity) == userProviderIdentity = NoIdentity

\* input.emailVerified && !existingUserByEmail.emailVerified
MustMarkVerified(in, existingUserByEmail) ==
    in.emailVerified /\ ~existingUserByEmail.emailVerified

\* linkOAuthIdentity returns: authenticateWithOAuth goes on after its line 86,
\* createUserWithOAuth after its line 174 (it makes the tokens and returns).
AfterLink(p) ==
    LET q == [p EXCEPT !.link = "returned"] IN
    IF p.ret = "email"
    THEN IF MustMarkVerified(p.in, p.user)
         THEN [q EXCEPT !.pc = "updateEmailVerified"]
         ELSE [q EXCEPT !.pc = "findProfile"]
    ELSE End(q, "ok", "", p.user.id)

\* History: createUserWithOAuth has returned for the identity of p's input.
Born(p, q) ==
    IF p.ret = "create" /\ q.pc = "done" /\ q.res.kind = "ok"
    THEN born \cup {[provider |-> p.in.provider,
                     providerAccountId |-> p.in.providerAccountId,
                     userId |-> q.res.userId]}
    ELSE born

LinkThrows(p, kind, code) == End([p EXCEPT !.link = "threw"], kind, code, 0)

LinkFindByProviderAndAccountId(t) ==
    LET p == procs[t]
        existingIdentity ==
            findByProviderAndAccountId(p.in.provider, p.in.providerAccountId)
    IN  /\ p.pc = "findByProviderAndAccountId"
        /\ Goto(t, IF LinkedToOtherUser(existingIdentity, p.linkUserId)
                   THEN LinkThrows(p, "OAuthAuthError", "OAUTH_ACCOUNT_LINKED")
                   ELSE [p EXCEPT !.pc = "findByUserIdAndProvider"])
        /\ UNCHANGED <<users, profiles, companies, identities, calls, born, client>>

LinkFindByUserIdAndProvider(t) ==
    LET p == procs[t]
        userProviderIdentity ==
            findByUserIdAndProvider(p.linkUserId, p.in.provider)
    IN  /\ p.pc = "findByUserIdAndProvider"
        /\ Goto(t, IF MustCreateIdentity(userProviderIdentity)
                   THEN [p EXCEPT !.pc = "createIdentity"]
                   ELSE AfterLink(p))
        /\ born' = IF MustCreateIdentity(userProviderIdentity)
                   THEN born ELSE Born(p, AfterLink(p))
        /\ UNCHANGED <<users, profiles, companies, identities, calls, client>>

\* oauthIdentityRepository.create: the insert, or the store's refusal of a row
\* that breaks a unique constraint (an error that is no OAuthAuthError).
LinkCreateIdentity(t) ==
    LET p == procs[t]
        row == [userId |-> p.linkUserId, provider |-> p.in.provider,
                providerAccountId |-> p.in.providerAccountId]
    IN  /\ p.pc = "createIdentity"
        /\ IF IdentityInsertAllowed(row)
           THEN /\ identities' = identities \cup {row}
                /\ GotoWriting(t, AfterLink(p))
                /\ born' = Born(p, AfterLink(p))
           ELSE /\ identities' = identities
                /\ Goto(t, LinkThrows(p, "StorageError", "UNIQUE_VIOLATION"))
                /\ born' = born
        /\ UNCHANGED <<users, profiles, companies, calls, client>>

\* --- authenticateWithOAuth(input) ---

StartAuthenticate(t, in) ==
    Start(t, "authenticateWithOAuth", "findUserByProviderIdentity", in)

\* Step 1: the user already linked to this provider identity.
AuthFindUserByProviderIdentity(t) ==
    LET p == procs[t]
        existingUserByProvider ==
            findUserByProviderIdentity(p.in.provider, p.in.providerAccountId)
    IN  /\ p.pc = "findUserByProviderIdentity"
        /\ Goto(t, IF existingUserByProvider # NoUser
                   THEN [p EXCEPT !.pc = "findProfile",
                                  !.user = existingUserByProvider]
                   ELSE [p EXCEPT !.pc = "findByEmail"])
        /\ UNCHANGED <<users, profiles, companies, identities, calls, born, client>>

\* Step 2: the user with the assertion's email; if there is one, link.
AuthFindByEmail(t) ==
    LET p == procs[t]
        existingUserByEmail == findByEmail(p.in.email)
    IN  /\ p.pc = "findByEmail"
        /\ Goto(t, IF existingUserByEmail # NoUser
                   THEN CallLink([p EXCEPT !.user = existingUserByEmail], "email")
                   ELSE [p EXCEPT !.pc = "createUser"])
        /\ UNCHANGED <<users, profiles, companies, identities, calls, born, client>>

\* userRepository.update(existingUserByEmail.id, {emailVerified: true})
AuthUpdateEmailVerified(t) ==
    LET p == procs[t] IN
    /\ p.pc = "updateEmailVerified"
    /\ users' = {IF u.id = p.user.id THEN [u EXCEPT !.emailVerified = TRUE] ELSE u
                 : u \in users}
    /\ IF users' = users
       THEN Goto(t, [p EXCEPT !.pc = "findProfile"])
       ELSE GotoWriting(t, [p EXCEPT !.pc = "findProfile"])
    /\ UNCHANGED <<profiles, companies, identities, calls, born, client>>

\* individualProfileRepository.findByUserId, then the tokens for the user the
\* task holds (of both the returning-identity and the email branch).
AuthFindProfile(t) ==
    LET p == procs[t]
        profile == findProfileByUserId(p.user.id)
    IN  /\ p.pc = "findProfile"
        /\ Goto(t, IF profile = {}
                   THEN End(p, "OAuthAuthError", "PROFILE_NOT_FOUND", 0)
                   ELSE End(p, "ok", "", p.user.id))
        /\ UNCHANGED <<users, profiles, companies, identities, calls, born, client>>

\* Step 3, createUserWithOAuth: the user, ...
AuthCreateUser(t) ==
    LET p == procs[t]
        row == NewUser(Trim(ToLowerCase(p.in.email)), Null, "individual",
                       p.in.emailVerified)
    IN  /\ p.pc = "createUser"
        /\ p.op = "authenticateWithOAuth"
        /\ IF UserInsertAllowed(row)
           THEN /\ users' = users \cup {row}
                /\ GotoWriting(t, [p EXCEPT !.pc = "createProfile", !.user = row])
           ELSE /\ users' = users
                /\ Goto(t, End(p, "StorageError", "UNIQUE_VIOLATION", 0))
        /\ UNCHANGED <<profiles, companies, identities, calls, born, client>>

\* ... its individual profile, and the call of linkOAuthIdentity.
AuthCreateProfile(t) ==
    LET p == procs[t]
        row == [userId |-> p.user.id]
    IN  /\ p.pc = "createProfile"
        /\ p.op = "authenticateWithOAuth"
        /\ IF ProfileInsertAllowed(row)
           THEN /\ profiles' = profiles \cup {row}
                /\ GotoWriting(t, CallLink(p, "create"))
           ELSE /\ profiles' = profiles
                /\ Goto(t, End(p, "StorageError", "UNIQUE_VIOLATION", 0))
        /\ UNCHANGED <<users, companies, identities, calls, born, client>>

\* --- unlinkProvider(userId, provider) ---

StartUnlink(t, userId, provider) ==
    Start(t, "unlinkProvider", "findById",
          [NoInput EXCEPT !.userId = userId, !.provider = provider])

UnlinkFindById(t) ==
    LET p == procs[t]
        user == findById(p.in.userId)
    IN  /\ p.pc = "findById"
        /\ Goto(t, IF user = NoUser
                   THEN End(p, "OAuthAuthError", "USER_NOT_FOUND", 0)
                   ELSE [p EXCEPT !.pc = "findByUserId", !.user = user])
        /\ UNCHANGED <<users, profiles, companies, identities, calls, born, client>>

\* The guard with < in place of <=.
OnlyAuthMethodOffByOne(user, linked) ==
    user.password = Null /\ Cardinality(linked) < 1

\* !hasPassword && identities.length <= 1
OnlyAuthMethod(user, linked) ==
    LET hasPassword == user.password # Null IN
    ~hasPassword /\ Cardinality(linked) <= 1

\* The identities are read and the guard decides at once.
UnlinkFindByUserId(t) ==
    LET p == procs[t]
        linked == findByUserId(p.in.userId)
    IN  /\ p.pc = "findByUserId"
        /\ Goto(t, IF OnlyAuthMethod(p.user, linked)
                   THEN End(p, "OAuthAuthError", "CANNOT_UNLINK_ONLY_AUTH", 0)
                   ELSE [p EXCEPT !.pc = "deleteByUserIdAndProvider"])
        /\ UNCHANGED <<users, profiles, companies, identities, calls, born, client>>

UnlinkDeleteByUserIdAndProvider(t) ==
    LET p == procs[t]
        gone == {i \in identities :
                    i.userId = p.in.userId /\ i.provider = p.in.provider}
    IN  /\ p.pc = "deleteByUserIdAndProvider"
        /\ identities' = identities \ gone
        /\ IF gone = {}
           THEN Goto(t, End(p, "ok", "", 0))
           ELSE GotoWriting(t, End(p, "ok", "", 0))
        /\ UNCHANGED <<users, profiles, companies, calls, born, client>>

\* The inputs of the identity linking engine.
AccountIds == {"x1"}

OAuthEmails == {<<"A">>, <<"b">>}

OAuthInputs ==
    {[NoInput EXCEPT !.email = e, !.emailVerified = v, !.provider = pr,
                     !.providerAccountId = a] :
        e \in OAuthEmails, v \in BOOLEAN, pr \in Providers, a \in AccountIds}

UserIds == 1 .. MaxCalls

\* The user registerIndividual({email: "b", password: "pw", ...}) leaves, and
\* the user the callbacks (google, "x1", "a") and then (apple, "x1", "a") leave.
RegisteredUser ==
    [id |-> 1, email |-> <<"b">>, password |-> hashPassword("pw"),
     userType |-> "individual", emailVerified |-> FALSE, isActive |-> TRUE]

OAuthUser ==
    [id |-> 2, email |-> <<"a">>, password |-> Null, userType |-> "individual",
     emailVerified |-> TRUE, isActive |-> TRUE]

\* The engine starts with the registered user alone, or with both users.
InitOAuth ==
    /\ \/ /\ users = {RegisteredUser}
          /\ profiles = {[userId |-> 1]}
          /\ identities = {}
          /\ born = {}
       \/ /\ users = {RegisteredUser, OAuthUser}
          /\ profiles = {[userId |-> 1], [userId |-> 2]}
          /\ identities =
                 {[userId |-> 2, provider |-> pr, providerAccountId |-> "x1"]
                  : pr \in Providers}
          /\ born = {[provider |-> "google", providerAccountId |-> "x1",
                      userId |-> 2]}
    /\ companies = {}
    /\ procs = [t \in Tasks |-> Idle]
    /\ calls = 0
    /\ rq = NoRequest
    /\ backoff = NoBackoff

LinkStep(t) ==
    \/ LinkFindByProviderAndAccountId(t)
    \/ LinkFindByUserIdAndProvider(t)
    \/ LinkCreateIdentity(t)

AuthenticateStep(t) ==
    \/ AuthFindUserByProviderIdentity(t)
    \/ AuthFindByEmail(t)
    \/ AuthUpdateEmailVerified(t)
    \/ AuthFindProfile(t)
    \/ AuthCreateUser(t)
    \/ AuthCreateProfile(t)
    \/ LinkStep(t)

UnlinkStep(t) ==
    \/ UnlinkFindById(t)
    \/ UnlinkFindByUserId(t)
    \/ UnlinkDeleteByUserIdAndProvider(t)

NextOAuth ==
    \E t \in Tasks :
        \/ \E in \in OAuthInputs : StartAuthenticate(t, in)
        \/ \E u \in UserIds, pr \in Providers : StartUnlink(t, u, pr)
        \/ AuthenticateStep(t)
        \/ UnlinkStep(t)

SpecOAuth == InitOAuth /\ [][NextOAuth]_vars

\* The engine with two accounts per provider, from the registered user alone:
\* assertions that claim verification, and unlinks.
LinkAccountIds == {"x1", "x2"}

LinkInputs ==
    {[NoInput EXCEPT !.email = e, !.emailVerified = TRUE, !.provider = pr,
                     !.providerAccountId = a] :
        e \in OAuthEmails, pr \in Providers, a \in LinkAccountIds}

InitLink ==
    /\ users = {RegisteredUser}
    /\ profiles = {[userId |-> 1]}
    /\ identities = {}
    /\ born = {}
    /\ companies = {}
    /\ procs = [t \in Tasks |-> Idle]
    /\ calls = 0
    /\ rq = NoRequest
    /\ backoff = NoBackoff

NextLink ==
    \E t \in Tasks :
        \/ \E in \in LinkInputs : StartAuthenticate(t, in)
        \/ \E u \in UserIds, pr \in Providers : StartUnlink(t, u, pr)
        \/ AuthenticateStep(t)
        \/ UnlinkStep(t)

SpecLink == InitLink /\ [][NextLink]_vars

(***************************************************************************)
(*                              AuthService                                *)
(***************************************************************************)

\* --- registerIndividual(input) ---

StartRegisterIndividual(t, in) ==
    Start(t, "registerIndividual", "existsByEmail", in)

\* userRepository.existsByEmail(input.email), then the two checks.
RegIndExistsByEmail(t) ==
    LET p == procs[t]
        existingUser == existsByEmail(p.in.email)
    IN  /\ p.pc = "existsByEmail"
        /\ p.op = "registerIndividual"
        /\ Goto(t, IF existingUser
                   THEN End(p, "AuthError", "EMAIL_EXISTS", 0)
                   ELSE IF ~p.in.termsAccepted
                   THEN End(p, "AuthError", "TERMS_NOT_ACCEPTED", 0)
                   ELSE [p EXCEPT !.pc = "createUser"])
        /\ UNCHANGED <<users, profiles, companies, identities, calls, born, client>>

\* userRepository.create({email: input.email.toLowerCase().trim(), ...}) of
\* registerIndividual and, with the company's email and type, registerCompany.
RegCreateUser(t) ==
    LET p == procs[t]
        row == NewUser(Trim(ToLowerCase(p.in.email)), hashPassword(p.in.password),
                       IF p.op = "registerIndividual"
                       THEN "individual" ELSE "logistics_company",
                       FALSE)
    IN  /\ p.pc = "createUser"
        /\ p.op \in {"registerIndividual", "registerCompany"}
        /\ IF UserInsertAllowed(row)
           THEN /\ users' = users \cup {row}
                /\ GotoWriting(t, [p EXCEPT !.pc = "createProfile", !.user = row])
           ELSE /\ users' = users
                /\ Goto(t, End(p, "StorageError", "UNIQUE_VIOLATION", 0))
        /\ UNCHANGED <<profiles, companies, identities, calls, born, client>>

\* individualProfileRepository.create({..., userId: user.id})
RegIndCreateProfile(t) ==
    LET p == procs[t]
        row == [userId |-> p.user.id]
    IN  /\ p.pc = "createProfile"
        /\ p.op = "registerIndividual"
        /\ IF ProfileInsertAllowed(row)
           THEN /\ profiles' = profiles \cup {row}
                /\ GotoWriting(t, [p EXCEPT !.pc = "sendEmailVerification"])
           ELSE /\ profiles' = profiles
                /\ Goto(t, End(p, "StorageError", "UNIQUE_VIOLATION", 0))
        /\ UNCHANGED <<users, companies, identities, calls, born, client>>

\* A registration that lets the rejection of the dispatch through.
RegSendEmailVerificationUncaught(t) ==
    LET p == procs[t] IN
    /\ p.pc = "sendEmailVerification"
    /\ \E sent \in BOOLEAN :
          Goto(t, IF sent
                  THEN End([p EXCEPT !.mail = "sent"], "ok", "", p.user.id)
                  ELSE End([p EXCEPT !.mail = "failed"], "Error", "", 0))
    /\ UNCHANGED <<users, profiles, companies, identities, calls, born, client>>

\* verificationService.sendEmailVerification(user.id) resolves or rejects; the
\* rejection is caught and logged, and either way the call returns the tokens.
RegSendEmailVerification(t) ==
    LET p == procs[t] IN
    /\ p.pc = "sendEmailVerification"
    /\ \E sent \in BOOLEAN :
          Goto(t, End([p EXCEPT !.mail = IF sent THEN "sent" ELSE "failed"],
                      "ok", "", p.user.id))
    /\ UNCHANGED <<users, profiles, companies, identities, calls, born, client>>

\* --- registerCompany(input) ---

StartRegisterCompany(t, in) ==
    Start(t, "registerCompany", "existsByEmail", in)

\* userRepository.existsByEmail(input.companyEmail)
RegCoExistsByEmail(t) ==
    LET p == procs[t]
        existingUser == existsByEmail(p.in.email)
    IN  /\ p.pc = "existsByEmail"
        /\ p.op = "registerCompany"
        /\ Goto(t, IF existingUser
                   THEN End(p, "AuthError", "EMAIL_EXISTS", 0)
                   ELSE [p EXCEPT !.pc = "findByRcNumber"])
        /\ UNCHANGED <<users, profiles, companies, identities, calls, born, client>>

\* companyProfileRepository.findByRcNumber(input.rcNumber), then the terms.
RegCoFindByRcNumber(t) ==
    LET p == procs[t]
        existingCompany == findByRcNumber(p.in.rcNumber)
    IN  /\ p.pc = "findByRcNumber"
        /\ Goto(t, IF existingCompany # {}
                   THEN End(p, "AuthError", "RC_NUMBER_EXISTS", 0)
                   ELSE IF ~p.in.termsAccepted
                   THEN End(p, "AuthError", "TERMS_NOT_ACCEPTED", 0)
                   ELSE [p EXCEPT !.pc = "createUser"])
        /\ UNCHANGED <<users, profiles, companies, identities, calls, born, client>>

\* companyProfileRepository.create({..., rcNumber: input.rcNumber.trim(),
\* userId: user.id})
RegCoCreateProfile(t) ==
    LET p == procs[t]
        row == [userId |-> p.user.id, rcNumber |-> Trim(p.in.rcNumber)]
    IN  /\ p.pc = "createProfile"
        /\ p.op = "registerCompany"
        /\ IF CompanyInsertAllowed(row)
           THEN /\ companies' = companies \cup {row}
                /\ GotoWriting(t, [p EXCEPT !.pc = "sendEmailVerification"])
           ELSE /\ companies' = companies
                /\ Goto(t, End(p, "StorageError", "UNIQUE_VIOLATION", 0))
        /\ UNCHANGED <<users, profiles, identities, calls, born, client>>

\* --- login(input) ---

\* verifyPassword(password, hash): the hash is hashPassword's of the password.
verifyPassword(password, hash) == hash = hashPassword(password)

\* The error of an email no user has, and the error of a password that does
\* not verify.
NoSuchUser ==
    [kind |-> "AuthError", code |-> "INVALID_CREDENTIALS",
     message |-> "Invalid email or password"]

\* A password error that says what was wrong.
PasswordMismatchTelling ==
    [kind |-> "AuthError", code |-> "INVALID_CREDENTIALS",
     message |-> "Invalid password"]

PasswordMismatch ==
    [kind |-> "AuthError", code |-> "INVALID_CREDENTIALS",
     message |-> "Invalid email or password"]

\* throw new AuthError(message, code)
Throw(p, e) ==
    [End(p, e.kind, e.code, 0) EXCEPT !.res.message = e.message]

\* generateTokens({email, userId, userType}) and the return of the response.
ReturnTokens(p, user) ==
    [End(p, "ok", "", user.id) EXCEPT !.res.email = user.email,
                                      !.res.userType = user.userType]

StartLogin(t, in) == Start(t, "login", "loginFindByEmail", in)

\* userRepository.findByEmail(input.email.toLowerCase().trim()), and the checks
\* that come before the password is verified.
LoginFindByEmail(t) ==
    LET p == procs[t]
        email == Trim(ToLowerCase(p.in.email))
        user == findByEmail(email)
    IN  /\ p.pc = "loginFindByEmail"
        /\ Goto(t, IF user = NoUser
                   THEN Throw(p, NoSuchUser)
                   ELSE IF user.password = Null
                   THEN End(p, "AuthError", "NO_PASSWORD", 0)
                   ELSE [p EXCEPT !.pc = "verifyPassword", !.user = user])
        /\ UNCHANGED <<users, profiles, companies, identities, calls, born, client>>

\* verifyPassword(input.password, user.password), then the isActive check.
LoginVerifyPassword(t) ==
    LET p == procs[t]
        isPasswordValid == verifyPassword(p.in.password, p.user.password)
    IN  /\ p.pc = "verifyPassword"
        /\ Goto(t, IF ~isPasswordValid
                   THEN Throw(p, PasswordMismatch)
                   ELSE IF ~p.user.isActive
                   THEN End(p, "AuthError", "ACCOUNT_DEACTIVATED", 0)
                   ELSE [p EXCEPT !.pc = "loginFindProfile"])
        /\ UNCHANGED <<users, profiles, companies, identities, calls, born, client>>

\* individualProfileRepository.findByUserId(user.id), then the tokens.
LoginFindProfile(t) ==
    LET p == procs[t]
        profile == findProfileByUserId(p.user.id)
    IN  /\ p.pc = "loginFindProfile"
        /\ Goto(t, IF profile = {}
                   THEN End(p, "AuthError", "PROFILE_NOT_FOUND", 0)
                   ELSE ReturnTokens(p, p.user))
        /\ UNCHANGED <<users, profiles, companies, identities, calls, born, client>>

LoginStep(t) ==
    \/ LoginFindByEmail(t)
    \/ LoginVerifyPassword(t)
    \/ LoginFindProfile(t)

\* The accounts login is tried on: a registered individual, an OAuth-only
\* user, a deactivated one, a company, and a user whose profile insert failed.
LoginUsers ==
    {RegisteredUser, OAuthUser,
     [id |-> 3, email |-> <<"c">>, password |-> hashPassword("pw"),
      userType |-> "individual", emailVerified |-> FALSE, isActive |-> FALSE],
     [id |-> 4, email |-> <<"d">>, password |-> hashPassword("pw"),
      userType |-> "logistics_company", emailVerified |-> FALSE,
      isActive |-> TRUE],
     [id |-> 5, email |-> <<"e">>, password |-> hashPassword("pw"),
      userType |-> "individual", emailVerified |-> FALSE, isActive |-> TRUE]}

LoginEmails ==
    {<<"B">>, <<" ", "b">>, <<"a">>, <<"c">>, <<"d">>, <<"e">>, <<"z">>}

LoginInputs ==
    {[NoInput EXCEPT !.email = e, !.password = pw] :
        e \in LoginEmails, pw \in {"pw", "no"}}

InitLogin ==
    /\ users = LoginUsers
    /\ profiles = {[userId |-> 1], [userId |-> 2], [userId |-> 3]}
    /\ companies = {[userId |-> 4, rcNumber |-> <<"1">>]}
    /\ identities =
           {[userId |-> 2, provider |-> "google", providerAccountId |-> "x1"]}
    /\ born = {}
    /\ procs = [t \in Tasks |-> Idle]
    /\ calls = 0
    /\ rq = NoRequest
    /\ backoff = NoBackoff

NextLogin ==
    \E t \in Tasks :
        \/ \E in \in LoginInputs : StartLogin(t, in)
        \/ LoginStep(t)

SpecLogin == InitLogin /\ [][NextLogin]_vars

\* The inputs of registration: emails that differ in case only, one that does
\* not, and one that comes with a blank; two registration numbers.
RegEmails == {<<"a">>, <<"A">>, <<"b">>, <<"a", " ">>}

RcNumbers == {<<"1">>, <<"2">>}

RegIndInputs ==
    {[NoInput EXCEPT !.email = e, !.termsAccepted = ta, !.password = "pw"] :
        e \in RegEmails, ta \in BOOLEAN}

RegCoInputs ==
    {[NoInput EXCEPT !.email = e, !.rcNumber = rc, !.termsAccepted = ta,
                     !.password = "pw"] :
        e \in RegEmails, rc \in RcNumbers, ta \in BOOLEAN}

RegisterIndividualStep(t) ==
    \/ RegIndExistsByEmail(t)
    \/ RegCreateUser(t)
    \/ RegIndCreateProfile(t)
    \/ RegSendEmailVerification(t)

RegisterCompanyStep(t) ==
    \/ RegCoExistsByEmail(t)
    \/ RegCoFindByRcNumber(t)
    \/ RegCoCreateProfile(t)

NextReg ==
    \E t \in Tasks :
        \/ \E in \in RegIndInputs : StartRegisterIndividual(t, in)
        \/ \E in \in RegCoInputs : StartRegisterCompany(t, in)
        \/ RegisterIndividualStep(t)
        \/ RegisterCompanyStep(t)

Init ==
    /\ users = {}
    /\ profiles = {}
    /\ companies = {}
    /\ identities = {}
    /\ procs = [t \in Tasks |-> Idle]
    /\ calls = 0
    /\ born = {}
    /\ rq = NoRequest
    /\ backoff = NoBackoff

SpecReg == Init /\ [][NextReg]_vars

\* Registration and the OAuth callback together, from the empty store, on two
\* emails (one of them in either case, and once with a blank), one registration
\* number and one provider account, the terms accepted.
AccountsRegIndInputs ==
    {[NoInput EXCEPT !.email = e, !.termsAccepted = TRUE, !.password = "pw"] :
        e \in {<<"A">>, <<"a", " ">>}}

AccountsRegCoInputs ==
    {[NoInput EXCEPT !.email = e, !.rcNumber = <<"1">>, !.termsAccepted = TRUE,
                     !.password = "pw"] :
        e \in {<<"a">>, <<"b">>}}

AccountsOAuthInputs ==
    {[NoInput EXCEPT !.email = e, !.emailVerified = v, !.provider = "google",
                     !.providerAccountId = "x1"] :
        e \in OAuthEmails, v \in BOOLEAN}

NextAccounts ==
    \E t \in Tasks :
        \/ \E in \in AccountsRegIndInputs : StartRegisterIndividual(t, in)
        \/ \E in \in AccountsRegCoInputs : StartRegisterCompany(t, in)
        \/ \E in \in AccountsOAuthInputs : StartAuthenticate(t, in)
        \/ RegisterIndividualStep(t)
        \/ RegisterCompanyStep(t)
        \/ AuthenticateStep(t)

SpecAccounts == Init /\ [][NextAccounts]_vars

\* The user registerCompany({companyEmail: "a", rcNumber: "1", ...}) leaves,
\* after the callback (google, "x1", "a", verified) has found it by email.
CompanyUser ==
    [id |-> 2, email |-> <<"a">>, password |-> hashPassword("pw"),
     userType |-> "logistics_company", emailVerified |-> TRUE, isActive |-> TRUE]

\* The callback starts with the registered user alone, or with the company
\* user as well, that callback's identity linked to it.
InitResolve ==
    /\ \/ /\ users = {RegisteredUser}
          /\ companies = {}
          /\ identities = {}
       \/ /\ users = {RegisteredUser, CompanyUser}
          /\ companies = {[userId |-> 2, rcNumber |-> <<"1">>]}
          /\ identities =
                 {[userId |-> 2, provider |-> "google", providerAccountId |-> "x1"]}
    /\ profiles = {[userId |-> 1]}
    /\ born = {}
    /\ procs = [t \in Tasks |-> Idle]
    /\ calls = 0
    /\ rq = NoRequest
    /\ backoff = NoBackoff

NextResolve ==
    \E t \in Tasks :
        \/ \E in \in OAuthInputs : StartAuthenticate(t, in)
        \/ AuthenticateStep(t)

SpecResolve == InitResolve /\ [][NextResolve]_vars

\* The caller takes the result; the client is ready for the next call.
RequestReturn ==
    /\ rq # NoRequest
    /\ rq' = NoRequest
    /\ UNCHANGED <<users, profiles, companies, identities, procs, calls, born,
                   backoff>>

NextReq ==
    \/ /\ rq = NoRequest
       /\ \E retry \in RetryOptions, script \in Scripts : Request(retry, script)
    \/ RequestReturn

SpecReq == Init /\ [][NextReq]_vars

NextBackoff ==
    \/ \E attempt \in 1 .. MaxAttempt, baseDelay \in BaseDelays,
          k \in 0 .. JitterSteps - 1 : Backoff(attempt, baseDelay, k)
    \/ BackoffSlept

SpecBackoff == Init /\ [][NextBackoff]_vars

(***************************************************************************)
(*                        PremblyVerificationProvider                      *)
(***************************************************************************)

\* The retry option verifyNIN and verifyRCNumber pass to requestService.post.
ProviderRetry ==
    [present |-> TRUE, enabled |-> "true", maxRetries |-> 3,
     retryableStatusCodes |-> {408, 429, 500, 502, 503, 504},
     retryableErrors |-> UndefinedErrors]

\* Bodies the verification API answers with: a company record (data with
\* company_name and branchAddress), a body that carries company_name and
\* address at its top level, a NIN record, and a rejection.
Bodies ==
    LET Found == [NoResponse EXCEPT !.status = TRUE, !.response_code = "00"]
        CompanyBody(name, branch) ==
            [Found EXCEPT !.data = [present |-> TRUE, company_name |-> name,
                                    branchAddress |-> branch]]
        FlatBody(name, address) ==
            [Found EXCEPT !.company_name = name, !.address = address]
        NinBody == [Found EXCEPT !.nin_data = TRUE]
        RejectedBody == [NoResponse EXCEPT !.response_code = "01",
                                           !.detail = "record not found"]
    IN  {CompanyBody(<<"a", "B">>, <<"b", "A">>),
         FlatBody(<<"a", "B">>, <<"b", "A">>), FlatBody(<<"x">>, <<"b", "A">>),
         NinBody, RejectedBody}

\* The object the provider's catch returns.  What requestService.post throws
\* is a RequestError, a plain object and no instance of Error.
CaughtResponse(error) ==
    [NoResponse EXCEPT
        !.response_code = "ERROR",
        !.message = IF error.type = "Error" THEN error.message
                    ELSE "Verification failed",
        !.error = IF error.type = "Error" THEN error.message
                  ELSE "Unknown error"]

\* What a provider call comes to: the raw response it returns, or a throw
\* (threw).  raised says whether the HTTP call behind it failed.

\* A provider call without the try/catch.
verifyUncaught(script, body) ==
    IF request(ProviderRetry, script).outcome = "returned"
    THEN [threw |-> FALSE, response |-> body, raised |-> FALSE]
    ELSE [threw |-> TRUE, response |-> NoResponse, raised |-> TRUE]

\* verifyRCNumber(rcNumber): the POST through the request client, in a
\* try/catch.  verifyNIN(idNumber) differs in the path it posts to.
verifyRCNumber(script, body) ==
    LET r == request(ProviderRetry, script) IN
    IF r.outcome = "returned"
    THEN [threw |-> FALSE, response |-> body, raised |-> FALSE]
    ELSE [threw |-> FALSE, response |-> CaughtResponse(r.error), raised |-> TRUE]

verifyNIN(script, body) ==
    LET r == request(ProviderRetry, script) IN
    IF r.outcome = "returned"
    THEN [threw |-> FALSE, response |-> body, raised |-> FALSE]
    ELSE [threw |-> FALSE, response |-> CaughtResponse(r.error), raised |-> TRUE]

\* transform(data): the VerificationResult of a raw response.  A NIN record
\* is standardized to its name parts and residence_address; a company record
\* to company_name and branchAddress; any other body is passed on as it is.
\* Of VerificationResult.data the model keeps the fields IdVerificationService
\* reads (company_name, address), and branchAddress.
transform(data) ==
    LET NoData == [company_name |-> <<>>, address |-> <<>>,
                   branchAddress |-> <<>>]
        asItIs == [NoData EXCEPT !.company_name = data.company_name,
                                 !.address = data.address]
    IN  IF data.error # ""
        THEN [isValid |-> FALSE, error |-> data.error, data |-> asItIs]
        ELSE IF ~data.status \/ data.response_code # "00"
        THEN [isValid |-> FALSE,
              error |-> IF data.detail # "" THEN data.detail
                        ELSE IF data.message # "" THEN data.message
                        ELSE "Verification failed",
              data |-> asItIs]
        ELSE [isValid |-> TRUE, error |-> "",
              data |-> IF data.nin_data
                       THEN NoData
                       ELSE IF data.data.present
                       THEN [NoData EXCEPT
                                !.company_name = data.data.company_name,
                                !.branchAddress = data.data.branchAddress]
                       ELSE asItIs]

(***************************************************************************)
(*                           IdVerificationService                         *)
(***************************************************************************)

\* A table that permits every ID type to every user type.
VALID_ID_TYPES_Any(userType) == {"rc_number", "nigerian_national_id"}

VALID_ID_TYPES(userType) ==
    CASE userType = "logistics_company" -> {"rc_number"}
      [] userType = "individual" -> {"nigerian_national_id"}
      [] userType = "rider" -> {"nigerian_national_id"}
      [] OTHER -> {}

\* /^\d{6}$/.test(idNumber)
IsRcFormat(idNumber) ==
    /\ Len(idNumber) = 6
    /\ \A i \in 1 .. Len(idNumber) :
           idNumber[i] \in {"0", "1", "2", "3", "4", "5", "6", "7", "8", "9"}

\* CompanyProfileRepository.findByUserId
findCompanyByUserId(userId) ==
    First({c \in companies : c.userId = userId}, NoCompany)

\* UserRepository's lookup by ID number, through the individual profile.
findByNigerianNationalId(idNumber) ==
    First({u \in users : \E q \in profiles : /\ q.userId = u.id
                                             /\ q.idNumber = idNumber},
          NoUser)

\* A check that takes the requesting user's own profile for somebody else's.
ClaimedByAnyone(existingCompany, userId) == existingCompany # {}

\* existingCompany && existingCompany.userId !== userId
ClaimedByOther(existingCompany, userId) ==
    \E c \in existingCompany : c.userId # userId

checkBusinessName(company, verificationResult) ==
    LET companyName == verificationResult.data.company_name IN
    /\ companyName # <<>>
    /\ ToLowerCase(companyName) = ToLowerCase(company.companyName)

checkAddress(company, verificationResult) ==
    LET address == verificationResult.data.address IN
    /\ address # <<>>
    /\ ToLowerCase(address) = ToLowerCase(company.address)

\* company_profiles.rc_number is unique: the update is refused when another
\* row holds the number.
CompanyUpdateAllowed(userId, rcNumber) ==
    \A c \in companies : c.userId # userId => c.rcNumber # rcNumber

\* CompanyProfileRepository.updateByUserId(userId, {rcNumber})
updateByUserId(userId, rcNumber) ==
    {IF c.userId = userId THEN [c EXCEPT !.rcNumber = rcNumber] ELSE c :
        c \in companies}

StartVerifyId(t, in) == Start(t, "verifyId", "verifyFindById", in)

\* verifyId up to its dispatch, and verifyRCNumber's format check.
VerifyFindById(t) ==
    LET p == procs[t]
        user == findById(p.in.userId)
    IN  /\ p.pc = "verifyFindById"
        /\ Goto(t, IF user = NoUser
                   THEN End(p, "IdVerificationError", "USER_NOT_FOUND", 0)
                   ELSE IF p.in.idType \notin VALID_ID_TYPES(user.userType)
                   THEN End(p, "IdVerificationError", "INVALID_ID_TYPE", 0)
                   ELSE IF p.in.idType = "rc_number"
                   THEN IF ~IsRcFormat(p.in.idNumber)
                        THEN End(p, "IdVerificationError", "INVALID_RC_FORMAT", 0)
                        ELSE [p EXCEPT !.pc = "verifyFindCompany", !.user = user]
                   ELSE IF p.in.idType = "nigerian_national_id"
                   THEN [p EXCEPT !.pc = "ninFindById", !.user = user]
                   ELSE End(p, "IdVerificationError", "UNSUPPORTED_ID_TYPE", 0))
        /\ UNCHANGED <<users, profiles, companies, identities, calls, born, client>>

\* --- verifyRCNumber(userId, idNumber) ---

\* companyProfileRepository.findByUserId(userId)
VerifyFindCompany(t) ==
    LET p == procs[t]
        companyProfile == findCompanyByUserId(p.in.userId)
    IN  /\ p.pc = "verifyFindCompany"
        /\ Goto(t, IF companyProfile = NoCompany
                   THEN End(p, "IdVerificationError", "PROFILE_NOT_FOUND", 0)
                   ELSE [p EXCEPT !.pc = "verifyFindByRcNumber",
                                  !.company = companyProfile])
        /\ UNCHANGED <<users, profiles, companies, identities, calls, born, client>>

\* companyProfileRepository.findByRcNumber(idNumber)
VerifyFindByRcNumber(t) ==
    LET p == procs[t]
        existingCompany == findByRcNumber(p.in.idNumber)
    IN  /\ p.pc = "verifyFindByRcNumber"
        /\ Goto(t, IF ClaimedByOther(existingCompany, p.in.userId)
                   THEN End(p, "IdVerificationError", "RC_NUMBER_EXISTS", 0)
                   ELSE [p EXCEPT !.pc = "verifyRCNumber"])
        /\ UNCHANGED <<users, profiles, companies, identities, calls, born, client>>

\* verificationProvider.verifyRCNumber(idNumber), transform and the cross-checks.
VerifyProviderRC(t, script, body) ==
    LET p == procs[t]
        r == verifyRCNumber(script, body)
        q == [p EXCEPT !.providerCalls = p.providerCalls + 1,
                       !.response = r.response, !.raised = r.raised]
        verificationResult == transform(r.response)
    IN  /\ p.pc = "verifyRCNumber"
        /\ Goto(t, IF r.threw
                   THEN End(q, "RequestError", "", 0)
                   ELSE IF \/ ~verificationResult.isValid
                           \/ ~checkBusinessName(p.company, verificationResult)
                           \/ ~checkAddress(p.company, verificationResult)
                   THEN End(q, "IdVerificationError", "VERIFICATION_FAILED", 0)
                   ELSE [q EXCEPT !.pc = "updateByUserId"])
        /\ UNCHANGED <<users, profiles, companies, identities, calls, born, client>>

\* companyProfileRepository.updateByUserId(userId, {rcNumber: idNumber})
VerifyUpdateByUserId(t) ==
    LET p == procs[t] IN
    /\ p.pc = "updateByUserId"
    /\ IF CompanyUpdateAllowed(p.in.userId, p.in.idNumber)
       THEN /\ companies' = updateByUserId(p.in.userId, p.in.idNumber)
            /\ GotoWriting(t, End(p, "ok", "", 0))
       ELSE /\ companies' = companies
            /\ Goto(t, End(p, "DatabaseError", "unique_violation", 0))
    /\ UNCHANGED <<users, profiles, identities, calls, born, client>>

\* --- verifyNigerianNationalId(userId, idNumber) ---

\* userRepository.findById(userId), once more.
NinFindById(t) ==
    LET p == procs[t]
        user == findById(p.in.userId)
    IN  /\ p.pc = "ninFindById"
        /\ Goto(t, IF user = NoUser
                   THEN End(p, "IdVerificationError", "USER_NOT_FOUND", 0)
                   ELSE [p EXCEPT !.pc = "findByVerificationIdNumber"])
        /\ UNCHANGED <<users, profiles, companies, identities, calls, born, client>>

\* userRepository.findByVerificationIdNumber(idNumber).  UserRepository has no
\* method of that name: the call is a TypeError, or, where the name resolves
\* to the repository's lookup by ID number, the check that follows it is made.
NinFindByVerificationIdNumber(t) ==
    LET p == procs[t]
        existingUser == findByNigerianNationalId(p.in.idNumber)
    IN  /\ p.pc = "findByVerificationIdNumber"
        /\ \E resolves \in BOOLEAN :
              Goto(t, IF ~resolves
                      THEN End(p, "TypeError", "", 0)
                      ELSE IF existingUser # NoUser
                              /\ existingUser.id # p.in.userId
                      THEN End(p, "IdVerificationError",
                               "NIGERIAN_NATIONAL_ID_EXISTS", 0)
                      ELSE [p EXCEPT !.pc = "verifyNIN"])
        /\ UNCHANGED <<users, profiles, companies, identities, calls, born, client>>

\* verificationProvider.verifyNIN(idNumber) and transform.
VerifyProviderNIN(t, script, body) ==
    LET p == procs[t]
        r == verifyNIN(script, body)
        q == [p EXCEPT !.providerCalls = p.providerCalls + 1,
                       !.response = r.response, !.raised = r.raised]
        verificationResult == transform(r.response)
    IN  /\ p.pc = "verifyNIN"
        /\ Goto(t, IF r.threw
                   THEN End(q, "RequestError", "", 0)
                   ELSE IF ~verificationResult.isValid
                   THEN End(q, "IdVerificationError", "VERIFICATION_FAILED", 0)
                   ELSE End(q, "ok", "", 0))
        /\ UNCHANGED <<users, profiles, companies, identities, calls, born, client>>

\* A six-digit number.
Number(d) == <<d, d, d, d, d, d>>

\* Calls for a user that does not exist, with an ID type the user's type does
\* not permit, with a malformed number, with the user's own number, with a
\* number another user holds, and with a number nobody holds.
VerifyInputs ==
    LET VerifyInput(userId, idType, idNumber) ==
            [NoInput EXCEPT !.userId = userId, !.idType = idType,
                            !.idNumber = idNumber]
    IN  {VerifyInput(9, "rc_number", Number("1")),
         VerifyInput(1, "rc_number", Number("2")),
         VerifyInput(1, "nigerian_national_id", Number("1")),
         VerifyInput(2, "nigerian_national_id", Number("1")),
         VerifyInput(3, "nigerian_national_id", Number("2")),
         VerifyInput(3, "rc_number", Number("1")),
         VerifyInput(3, "rc_number", Number("2")),
         VerifyInput(3, "rc_number", <<"1", "2">>),
         VerifyInput(4, "rc_number", Number("1")),
         VerifyInput(4, "rc_number", Number("2")),
         VerifyInput(5, "rc_number", Number("2")),
         VerifyInput(5, "rc_number", <<"1", "2">>)}

\* The accounts verifyId is tried on: an individual whose profile carries an
\* ID number, a rider, two companies of one name and address (the first with
\* a six-digit registration number), and a company without a profile.
InitVerify ==
    LET VerifyUser(id, userType) ==
            [id |-> id, email |-> <<"u">> \o <<ToString(id)>>,
             password |-> hashPassword("pw"), userType |-> userType,
             emailVerified |-> FALSE, isActive |-> TRUE]
    IN  /\ users = {VerifyUser(1, "individual"), VerifyUser(2, "rider"),
                    VerifyUser(3, "logistics_company"),
                    VerifyUser(4, "logistics_company"),
                    VerifyUser(5, "logistics_company")}
        /\ profiles = {[userId |-> 1, idNumber |-> Number("1")]}
        /\ companies =
               {[userId |-> 3, rcNumber |-> Number("1"),
                 companyName |-> <<"A", "b">>, address |-> <<"B", "a">>],
                [userId |-> 4, rcNumber |-> <<"R", "C", "-", "7">>,
                 companyName |-> <<"A", "b">>, address |-> <<"B", "a">>]}
        /\ identities = {}
        /\ born = {}
        /\ procs = [t \in Tasks |-> Idle]
        /\ calls = 0
        /\ rq = NoRequest
        /\ backoff = NoBackoff

\* The network does the same to every attempt of a provider call, or fails
\* the first and answers the others.
NextVerify ==
    LET ProviderScripts ==
            {[i \in 1 .. ScriptLen |-> o] :
                o \in {Response, AxiosStatusError(503, "unavailable"),
                       AxiosTransportError("ECONNRESET")}}
            \cup {[i \in 1 .. ScriptLen |->
                      IF i = 1 THEN AxiosStatusError(503, "unavailable")
                      ELSE Response]}
    IN  \E t \in Tasks :
            \/ \E in \in VerifyInputs : StartVerifyId(t, in)
            \/ VerifyFindById(t)
            \/ VerifyFindCompany(t)
            \/ VerifyFindByRcNumber(t)
            \/ \E script \in ProviderScripts, body \in Bodies :
                  VerifyProviderRC(t, script, body)
            \/ VerifyUpdateByUserId(t)
            \/ NinFindById(t)
            \/ NinFindByVerificationIdNumber(t)
            \/ \E script \in ProviderScripts, body \in Bodies :
                  VerifyProviderNIN(t, script, body)

SpecVerify == InitVerify /\ [][NextVerify]_vars

\* Registration followed by login: an individual and a company register, and
\* logins try the registered emails in either letter case.
NextRoundTrip ==
    LET Registration == [NoInput EXCEPT !.termsAccepted = TRUE,
                                        !.password = "pw"]
    IN  \E t \in Tasks :
            \/ StartRegisterIndividual(t, [Registration EXCEPT !.email = <<"A">>])
            \/ StartRegisterCompany(t, [Registration EXCEPT !.email = <<"b">>,
                                                            !.rcNumber = <<"1">>])
            \/ \E e \in {<<"a">>, <<"A">>, <<"b">>, <<"B">>}, pw \in {"pw", "no"} :
                  StartLogin(t, [NoInput EXCEPT !.email = e, !.password = pw])
            \/ RegisterIndividualStep(t)
            \/ RegisterCompanyStep(t)
            \/ LoginStep(t)

SpecRoundTrip == Init /\ [][NextRoundTrip]_vars

\* Sign-in on a store with a deactivated account: user 3, an individual with
\* its profile, has the identity (google, "x1") linked and isActive = FALSE.
InitDeactivated ==
    /\ users = {RegisteredUser,
                [id |-> 3, email |-> <<"c">>, password |-> hashPassword("pw"),
                 userType |-> "individual", emailVerified |-> FALSE,
                 isActive |-> FALSE]}
    /\ profiles = {[userId |-> 1], [userId |-> 3]}
    /\ companies = {}
    /\ identities =
           {[userId |-> 3, provider |-> "google", providerAccountId |-> "x1"]}
    /\ born = {}
    /\ procs = [t \in Tasks |-> Idle]
    /\ calls = 0
    /\ rq = NoRequest
    /\ backoff = NoBackoff

NextDeactivated ==
    \E t \in Tasks :
        \/ \E e \in {<<"c">>, <<"z">>}, v \in BOOLEAN, pr \in Providers :
              StartAuthenticate(t, [NoInput EXCEPT !.email = e,
                                                   !.emailVerified = v,
                                                   !.provider = pr,
                                                   !.providerAccountId = "x1"])
        \/ \E e \in {<<"b">>, <<"C">>}, pw \in {"pw", "no"} :
              StartLogin(t, [NoInput EXCEPT !.email = e, !.password = pw])
        \/ AuthenticateStep(t)
        \/ LoginStep(t)

SpecDeactivated == InitDeactivated /\ [][NextDeactivated]_vars

(***************************************************************************)
(* Claims about the identity linking engine.  A call is judged as a whole  *)
(* when it ran undisturbed: p.pre is the store it started from and p.solo  *)
(* says that no other task has written since.                              *)
(***************************************************************************)
Ended(p, op) == p.op = op /\ p.pc = "done"

PreUser(p) == First({u \in p.pre.users : u.id = p.in.userId}, NoUser)

PreLinked(p) == {i \in p.pre.identities : i.userId = p.in.userId}

Unlinked(p) ==
    {i \in p.pre.identities :
        i.userId = p.in.userId /\ i.provider = p.in.provider}

\* C1: unlinkProvider(userId, provider) on a user without password and with at
\* most one linked identity fails with CANNOT_UNLINK_ONLY_AUTH and deletes no
\* row; on a user with two linked identities, or with a password, it succeeds,
\* and afterwards no (userId, provider) row exists (and no other row is gone).
C1_UnlinkContract ==
    \A t \in Tasks :
        LET p == procs[t] IN
        (Ended(p, "unlinkProvider") /\ p.solo /\ PreUser(p) # NoUser) =>
            IF PreUser(p).password = Null /\ Cardinality(PreLinked(p)) <= 1
            THEN /\ p.res.kind = "OAuthAuthError"
                 /\ p.res.code = "CANNOT_UNLINK_ONLY_AUTH"
                 /\ Store = p.pre
            ELSE /\ p.res.kind = "ok"
                 /\ ~ \E i \in identities :
                         i.userId = p.in.userId /\ i.provider = p.in.provider
                 /\ identities = p.pre.identities \ Unlinked(p)
                 /\ users = p.pre.users

\* A passwordless user with two linked identities has unlinked one of them.
C1_Witness ==
    \E t \in Tasks :
        LET p == procs[t] IN
        /\ Ended(p, "unlinkProvider") /\ p.solo
        /\ PreUser(p) # NoUser
        /\ PreUser(p).password = Null
        /\ Cardinality(PreLinked(p)) = 2
        /\ Unlinked(p) # {}
        /\ p.res.kind = "ok"
        /\ Cardinality(identities) = Cardinality(p.pre.identities) - 1

HasAuthMethod(u) ==
    u.password # Null \/ \E i \in identities : i.userId = u.id

\* C2: no user is ever orphaned: whenever no operation is in progress, every
\* user has a password or at least one linked identity.
C2_NoOrphan ==
    (\A t \in Tasks : ~Running(t)) => \A u \in users : HasAuthMethod(u)

\* The row linkOAuthIdentity is to make, and the rows that, when the link was
\* called, bound the same provider account to another user.
LinkRow(p) ==
    [userId |-> p.linkUserId, provider |-> p.in.provider,
     providerAccountId |-> p.in.providerAccountId]

BoundElsewhere(p) ==
    {i \in p.lpre : /\ i.provider = p.in.provider
                    /\ i.providerAccountId = p.in.providerAccountId
                    /\ i.userId # p.linkUserId}

LinkOver(p) == p.link \in {"returned", "threw"} /\ p.lsolo

\* C3: the link is idempotent: linking (provider, providerAccountId) to user u
\* when that pair is already linked to u raises no error and leaves the
\* OAuthIdentity store as it was, in every task that does so.
C3_LinkIdempotent ==
    \A t \in Tasks :
        LET p == procs[t] IN
        (LinkOver(p) /\ LinkRow(p) \in p.lpre) =>
            /\ p.link = "returned"
            /\ identities = p.lpre

C3_Witness ==
    \E t \in Tasks :
        LET p == procs[t] IN
        /\ LinkOver(p)
        /\ LinkRow(p) \in p.lpre
        /\ p.link = "returned"
        /\ LinkRow(p) \in identities

\* C4: linking a (provider, providerAccountId) that is bound to user A to a
\* different user B fails with OAUTH_ACCOUNT_LINKED; the row still binds the
\* pair to A and no row was created.
C4_LinkConflict ==
    \A t \in Tasks :
        LET p == procs[t] IN
        (LinkOver(p) /\ BoundElsewhere(p) # {}) =>
            /\ p.link = "threw"
            /\ p.res.kind = "OAuthAuthError"
            /\ p.res.code = "OAUTH_ACCOUNT_LINKED"
            /\ identities = p.lpre

C4_Witness ==
    \E t \in Tasks :
        LET p == procs[t] IN
        /\ LinkOver(p)
        /\ BoundElsewhere(p) # {}
        /\ p.res.code = "OAUTH_ACCOUNT_LINKED"
        /\ BoundElsewhere(p) \subseteq identities

NormalizedEmail(email) == Trim(ToLowerCase(email))

\* The assertion's provider identity is unlinked and its email is no user's.
BrandNew(p) ==
    /\ \A i \in p.pre.identities :
          ~(i.provider = p.in.provider
            /\ i.providerAccountId = p.in.providerAccountId)
    /\ \A u \in p.pre.users : u.email # NormalizedEmail(p.in.email)

\* The call added one user (individual, no password), the profile it owns and
\* the identity that binds the assertion's provider account to it; nothing else.
CreatedOneOfEach(p) ==
    /\ p.res.kind = "ok"
    /\ \E u \in users :
          /\ u.id = p.res.userId
          /\ u.userType = "individual"
          /\ u.password = Null
          /\ u.email = NormalizedEmail(p.in.email)
          /\ u \notin p.pre.users
          /\ users = p.pre.users \cup {u}
          /\ [userId |-> u.id] \notin p.pre.profiles
          /\ profiles = p.pre.profiles \cup {[userId |-> u.id]}
          /\ LET row == [userId |-> u.id, provider |-> p.in.provider,
                         providerAccountId |-> p.in.providerAccountId]
             IN  /\ row \notin p.pre.identities
                 /\ identities = p.pre.identities \cup {row}
    /\ companies = p.pre.companies

\* The users created earlier, by a call that had ended when p's call started,
\* for the provider identity of p's assertion.
BornBefore(p) ==
    {b \in born : /\ b.provider = p.in.provider
                  /\ b.providerAccountId = p.in.providerAccountId
                  /\ \E u \in p.pre.users : u.id = b.userId}

SameUserNothingWritten(p, b) ==
    /\ p.res.kind = "ok"
    /\ p.res.userId = b.userId
    /\ Store = p.pre

\* C5 as claimed: for an assertion whose provider identity is unlinked and
\* whose email is no user's, authenticateWithOAuth creates exactly one User
\* (individual, password null), one Profile and one OAuthIdentity; every later
\* call with the same provider identity returns the same userId and leaves the
\* stores unchanged.
C5_AsClaimed ==
    \A t \in Tasks :
        LET p == procs[t] IN
        (Ended(p, "authenticateWithOAuth") /\ p.solo) =>
            /\ BrandNew(p) => CreatedOneOfEach(p)
            /\ \A b \in BornBefore(p) : SameUserNothingWritten(p, b)

\* C5, amended: for an assertion whose provider identity is unlinked and whose
\* email is no user's, authenticateWithOAuth creates exactly one User
\* (individual, password null), one Profile and one OAuthIdentity; every later
\* call with the same provider identity, made while that identity is still
\* linked to the created user, returns the same userId and leaves the stores
\* unchanged.  (unlinkProvider can take the identity away in between, and the
\* next call then links it again, to whichever user holds the email.)
C5_WhileLinked ==
    \A t \in Tasks :
        LET p == procs[t] IN
        (Ended(p, "authenticateWithOAuth") /\ p.solo) =>
            /\ BrandNew(p) => CreatedOneOfEach(p)
            /\ \A b \in BornBefore(p) :
                  [userId |-> b.userId, provider |-> b.provider,
                   providerAccountId |-> b.providerAccountId]
                      \in p.pre.identities
                  => SameUserNothingWritten(p, b)

\* One call has created the user and a later call with the same provider
\* identity has returned it.
C5_Witness ==
    \E t1, t2 \in Tasks :
        LET p == procs[t1]
            q == procs[t2]
        IN  /\ Ended(p, "authenticateWithOAuth") /\ p.solo
            /\ BrandNew(p) /\ CreatedOneOfEach(p)
            /\ Ended(q, "authenticateWithOAuth") /\ q.solo
            /\ q.in.provider = p.in.provider
            /\ q.in.providerAccountId = p.in.providerAccountId
            /\ q.in.email # p.in.email
            /\ BornBefore(q) # {}
            /\ q.res.kind = "ok"
            /\ q.res.userId = p.res.userId

(***************************************************************************)
(* Claims about registration.                                              *)
(***************************************************************************)

\* An email string as the request validators let it through: no blank around.
WellFormed(email) == Trim(email) = email

\* The users of the store the call started from that hold a case variant.
HeldBy(p) == {u \in p.pre.users : u.email = ToLowerCase(p.in.email)}

\* C6: for email strings that differ only in letter case: after a successful
\* registerIndividual the stored email is the lower-cased form of the one
\* given, and a registerIndividual with a case variant of an email already
\* registered is rejected with EMAIL_EXISTS and creates no User and no Profile.
C6_CaseInsensitiveEmail ==
    \A t \in Tasks :
        LET p == procs[t] IN
        (Ended(p, "registerIndividual") /\ p.solo /\ WellFormed(p.in.email)) =>
            /\ p.res.kind = "ok" =>
                  \E u \in users : /\ u.id = p.res.userId
                                   /\ u.email = ToLowerCase(p.in.email)
                                   /\ u \notin p.pre.users
            /\ HeldBy(p) # {} =>
                  /\ p.res.kind = "AuthError"
                  /\ p.res.code = "EMAIL_EXISTS"
                  /\ Store = p.pre

\* One registration has succeeded with an email in upper case or in lower
\* case, and a second one with the other variant has been rejected.
C6_Witness ==
    \E t1, t2 \in Tasks :
        LET p == procs[t1]
            q == procs[t2]
        IN  /\ Ended(p, "registerIndividual") /\ p.res.kind = "ok"
            /\ Ended(q, "registerIndividual") /\ q.solo
            /\ WellFormed(p.in.email) /\ WellFormed(q.in.email)
            /\ q.in.email # p.in.email
            /\ ToLowerCase(q.in.email) = ToLowerCase(p.in.email)
            /\ \E u \in HeldBy(q) : u.id = p.res.userId
            /\ q.res.code = "EMAIL_EXISTS"

\* The company profiles of the store the call started from that hold the
\* registration number given.
RcHeldBy(p) == {c \in p.pre.companies : c.rcNumber = p.in.rcNumber}

\* C7: registerCompany with a registration number already held by a company
\* profile fails with RC_NUMBER_EXISTS whatever the email, as long as no user
\* has it, and creates no User and no Profile.
C7_RcNumberExists ==
    \A t \in Tasks :
        LET p == procs[t] IN
        (Ended(p, "registerCompany") /\ p.solo
            /\ RcHeldBy(p) # {} /\ HeldBy(p) = {}) =>
            /\ p.res.kind = "AuthError"
            /\ p.res.code = "RC_NUMBER_EXISTS"
            /\ Store = p.pre

\* A company has registered and a second one with the same number and another
\* email has been rejected.
C7_Witness ==
    \E t1, t2 \in Tasks :
        LET p == procs[t1]
            q == procs[t2]
        IN  /\ Ended(p, "registerCompany") /\ p.res.kind = "ok"
            /\ Ended(q, "registerCompany") /\ q.solo
            /\ q.in.rcNumber = p.in.rcNumber
            /\ ToLowerCase(q.in.email) # ToLowerCase(p.in.email)
            /\ \E c \in RcHeldBy(q) : c.userId = p.res.userId
            /\ q.res.code = "RC_NUMBER_EXISTS"
            /\ Store = q.pre

(***************************************************************************)
(* Claims about the request client.                                        *)
(***************************************************************************)
\* The claims' own reading of a call's inputs.
RetryDisabled(retry) == ~retry.present \/ retry.enabled \in {"false", "undefined"}

RetryEnabled(retry) == retry.present /\ retry.enabled = "true"

MaxRetriesOf(retry) ==
    IF retry.maxRetries = -1 THEN DefaultMaxRetries ELSE retry.maxRetries

RetryableFailure(o) ==
    /\ o.type = "axios"
    /\ \/ o.status \in {408, 429, 500, 502, 503, 504}
       \/ o.code \in {"ECONNRESET", "ETIMEDOUT", "ENOTFOUND", "ECONNREFUSED"}

\* C8: a request with retry disabled (the default: no retry option, or enabled
\* false or absent) makes exactly one HTTP attempt, takes no backoff sleep, and
\* returns the response or raises the normalized error of that attempt, also
\* when the attempt failed with a retryable status such as 503.
C8_RetryDisabledOneAttempt ==
    (rq # NoRequest /\ RetryDisabled(rq.retry)) =>
        /\ rq.result.attempts = 1
        /\ rq.result.sleeps = <<>>
        /\ IF rq.script[1].type = "response"
           THEN rq.result.outcome = "returned"
           ELSE /\ rq.result.outcome = "raised"
                /\ rq.result.error = handleError(rq.script[1])
                /\ rq.result.error.status = rq.script[1].status

C8_Witness ==
    /\ rq # NoRequest
    /\ RetryDisabled(rq.retry)
    /\ rq.script[1].status = 503
    /\ rq.script[2].type = "response"
    /\ rq.result.outcome = "raised"
    /\ rq.result.attempts = 1
    /\ rq.result.error.status = 503
    /\ rq.result.error.isRetryable

\* C9: with retry enabled a request makes at most maxRetries + 1 attempts; it
\* makes exactly maxRetries + 1 attempts when every attempt fails with a
\* retryable failure and then raises the normalized error of the last attempt;
\* it stops at the first successful attempt; and each retry is preceded by
\* exactly one backoff sleep.
C9_RetryAttempts ==
    (rq # NoRequest /\ RetryEnabled(rq.retry)) =>
        LET m == MaxRetriesOf(rq.retry)
            r == rq.result
        IN  /\ r.attempts <= m + 1
            /\ (\A i \in 1 .. m + 1 : RetryableFailure(rq.script[i])) =>
                   /\ r.attempts = m + 1
                   /\ r.outcome = "raised"
                   /\ r.error = handleError(rq.script[m + 1])
            /\ r.outcome = "returned" =>
                   /\ rq.script[r.attempts].type = "response"
                   /\ \A i \in 1 .. r.attempts - 1 : rq.script[i].type # "response"
            /\ Len(r.sleeps) = r.attempts - 1

\* C10: with retry enabled, a failed attempt is followed by a sleep and a
\* further attempt only if it was a retryable failure; a failure that is not
\* retryable ends the call at once with the normalized error of that failure.
C10_TerminalFailure ==
    (rq # NoRequest /\ RetryEnabled(rq.retry)) =>
        LET r == rq.result IN
        /\ \A i \in 1 .. Len(r.sleeps) : RetryableFailure(rq.script[r.sleeps[i]])
        /\ \A i \in 1 .. r.attempts - 1 : RetryableFailure(rq.script[i])
        /\ (rq.script[r.attempts].type # "response"
            /\ ~RetryableFailure(rq.script[r.attempts])) =>
               /\ r.outcome = "raised"
               /\ r.error = handleError(rq.script[r.attempts])

\* The delay before exponentiation's jitter and cap, in ms.
ExponentialDelay == backoff.baseDelay * Pow2(backoff.attempt - 1)

\* The cap cut the delay short.
Capped ==
    calculateBackoffDelayUncapped(backoff.attempt, backoff.baseDelay,
                                  backoff.random) > MaxBackoffDelay * Scale

\* min(b*2^(n-1), 30000) <= d <= 30000
WithinBounds ==
    /\ Min(ExponentialDelay, MaxBackoffDelay) * Scale <= backoff.delay
    /\ backoff.delay <= MaxBackoffDelay * Scale

\* d < 1.3*b*2^(n-1)
BelowJitterLimit == backoff.delay < 13 * JitterSteps * ExponentialDelay

\* With b = 1000: attempt 1 in [1000, 1300), attempt 3 in [4000, 5200).
Examples ==
    backoff.baseDelay = 1000 =>
        /\ backoff.attempt = 1 =>
              1000 * Scale <= backoff.delay /\ backoff.delay < 1300 * Scale
        /\ backoff.attempt = 3 =>
              4000 * Scale <= backoff.delay /\ backoff.delay < 5200 * Scale

C12_IdentityUniqueness ==
    \A i, j \in identities :
        /\ (i.userId = j.userId /\ i.provider = j.provider) => i = j
        /\ (i.provider = j.provider
            /\ i.providerAccountId = j.providerAccountId) => i = j

\* Two calls have raced to link: one inserted the row, and the insert of the
\* other, for the same provider and another user or account, was refused.
C12_Witness ==
    \E t \in Tasks :
        LET p == procs[t] IN
        /\ Ended(p, "authenticateWithOAuth")
        /\ p.link = "threw"
        /\ p.res.kind = "StorageError"
        /\ \E i \in identities :
              /\ i.provider = p.in.provider
              /\ i # LinkRow(p)
              /\ \/ i.userId = p.linkUserId
                 \/ i.providerAccountId = p.in.providerAccountId

\* C13: no duplicate accounts: in every reachable state, after any sequence or
\* interleaving of registerIndividual, registerCompany and
\* authenticateWithOAuth calls, there is at most one User per case-normalized
\* email, and every stored User.email is in lower-cased, trimmed form.
C13_NoDuplicateAccounts ==
    /\ \A u, v \in users : ToLowerCase(u.email) = ToLowerCase(v.email) => u = v
    /\ \A u \in users : u.email = Trim(ToLowerCase(u.email))

\* A user was stored from an email in upper case, and the insert of a second
\* call that had passed the same pre-check was refused.
C13_Witness ==
    /\ \E u \in users : u.email = <<"a">>
    /\ \E t1, t2 \in Tasks :
          LET p == procs[t1]
              q == procs[t2]
          IN  /\ p.pc = "done" /\ p.res.kind = "ok"
              /\ p.in.email = <<"A">>
              /\ q.pc = "done" /\ q.res.kind = "StorageError"
              /\ q.link = "none"
              /\ ToLowerCase(q.in.email) = <<"a">>
              /\ Cardinality(users) = 1

\* C14: when two concurrent calls both pass the pre-check and the later writer
\* hits a uniqueness constraint of the store, its outcome is the domain error
\* of the pre-check (EMAIL_EXISTS, RC_NUMBER_EXISTS, OAUTH_ACCOUNT_LINKED) and
\* never a generic storage error.  (Emails as the validators pass them: the
\* refused insert is then one that another call's insert came before.)
C14_ConstraintTranslated ==
    \A t \in Tasks :
        LET p == procs[t] IN
        (p.pc = "done" /\ WellFormed(p.in.email)) =>
            /\ p.res.kind # "StorageError"
            /\ p.res.code # "UNIQUE_VIOLATION"

\* The profile rows, of either variant, that User u owns.
OwnProfiles(u) == {r \in profiles : r.userId = u.id}

OwnCompanies(u) == {c \in companies : c.userId = u.id}

ExactlyOneProfile(u) ==
    IF u.userType = "individual"
    THEN Cardinality(OwnProfiles(u)) = 1 /\ OwnCompanies(u) = {}
    ELSE Cardinality(OwnCompanies(u)) = 1 /\ OwnProfiles(u) = {}

\* C15: every User has exactly one Profile: in every reachable state in which
\* no operation is in progress, reached by any interleaving of
\* registerIndividual, registerCompany and authenticateWithOAuth calls, each
\* User row is owned by exactly one Profile row of the variant matching its
\* userType.
C15_ExactlyOneProfile ==
    (\A t \in Tasks : ~Running(t)) => \A u \in users : ExactlyOneProfile(u)

(***************************************************************************)
(* Claims about the resolution order of authenticateWithOAuth.             *)
(***************************************************************************)

\* In the store the call started from: the identity rows of the assertion's
\* provider account, and whether user u had the profile of its variant.
PreMatching(p) ==
    {i \in p.pre.identities : /\ i.provider = p.in.provider
                              /\ i.providerAccountId = p.in.providerAccountId}

PreHasOwnProfile(p, u) ==
    IF u.userType = "individual"
    THEN [userId |-> u.id] \in p.pre.profiles
    ELSE \E c \in p.pre.companies : c.userId = u.id

\* C16: resolution order is strict, first match wins: when the assertion's
\* (provider, providerAccountId) is linked to user A (a user that has its
\* profile), authenticateWithOAuth issues tokens for A and changes no store,
\* whether the assertion's email is absent from the store or belongs to a
\* different user B.
C16_IdentityFirst ==
    \A t \in Tasks :
        LET p == procs[t] IN
        (Ended(p, "authenticateWithOAuth") /\ p.solo) =>
            \A i \in PreMatching(p) :
                \A a \in p.pre.users :
                    (a.id = i.userId /\ PreHasOwnProfile(p, a)) =>
                        /\ p.res.kind = "ok"
                        /\ p.res.userId = a.id
                        /\ Store = p.pre

\* C17: when no identity row matches the assertion but a User with the
\* assertion's email exists (and has its profile), authenticateWithOAuth
\* creates no new User and issues tokens for that user, whatever the
\* assertion's emailVerified; the stored emailVerified is afterwards true
\* exactly when it was true before or the assertion claims verification.
C17_EmailSecond ==
    \A t \in Tasks :
        LET p == procs[t] IN
        (Ended(p, "authenticateWithOAuth") /\ p.solo /\ PreMatching(p) = {}) =>
            \A b \in HeldBy(p) :
                PreHasOwnProfile(p, b) =>
                    /\ p.res.kind = "ok"
                    /\ p.res.userId = b.id
                    /\ users = (p.pre.users \ {b}) \cup
                          {[b EXCEPT !.emailVerified =
                                        b.emailVerified \/ p.in.emailVerified]}

(***************************************************************************)
(* Claims about the email-verification dispatch and about login.           *)
(***************************************************************************)

\* The call of p has returned the user it created, and the rows are there.
RegisteredAndStored(p) ==
    /\ p.res.kind = "ok"
    /\ \E u \in users :
          /\ u.id = p.res.userId
          /\ u.email = Trim(ToLowerCase(p.in.email))
          /\ IF p.op = "registerIndividual"
             THEN u.userType = "individual" /\ OwnProfiles(u) # {}
             ELSE /\ u.userType = "logistics_company"
                  /\ \E c \in OwnCompanies(u) : c.rcNumber = Trim(p.in.rcNumber)

\* C18: registerIndividual and registerCompany succeed, the User and the
\* Profile created and the tokens returned, whether the dispatch of the
\* email-verification OTP succeeds or throws: a dispatch failure changes
\* neither the result nor the rows created.
C18_DispatchBestEffort ==
    \A t \in Tasks :
        LET p == procs[t] IN
        (p.pc = "done" /\ p.mail \in {"sent", "failed"}) =>
            RegisteredAndStored(p)

\* A registration of either kind whose dispatch threw.
C18_Witness ==
    \E t1, t2 \in Tasks :
        LET p == procs[t1]
            q == procs[t2]
        IN  /\ Ended(p, "registerIndividual") /\ p.mail = "failed"
            /\ Ended(q, "registerCompany") /\ q.mail = "failed"
            /\ RegisteredAndStored(p) /\ RegisteredAndStored(q)

\* The user login is to find: the one with the normalized email, in the store
\* the call started from.
LoginUser(p) ==
    First({u \in p.pre.users : u.email = Trim(ToLowerCase(p.in.email))}, NoUser)

Fails(p, code) == p.res.kind = "AuthError" /\ p.res.code = code

\* C19: login outcomes, in this precedence: no user for the normalized email:
\* INVALID_CREDENTIALS; the user has no password: NO_PASSWORD; password
\* mismatch: INVALID_CREDENTIALS; isActive false: ACCOUNT_DEACTIVATED, only
\* after the password verified; profile row missing: PROFILE_NOT_FOUND;
\* otherwise tokens with the payload {email, userId, userType} of that user.
\* login never mutates any store.
C19_LoginOutcomes ==
    \A t \in Tasks :
        LET p == procs[t]
            u == LoginUser(p)
        IN  (Ended(p, "login") /\ p.solo) =>
                /\ Store = p.pre
                /\ IF u = NoUser THEN Fails(p, "INVALID_CREDENTIALS")
                   ELSE IF u.password = Null THEN Fails(p, "NO_PASSWORD")
                   ELSE IF ~verifyPassword(p.in.password, u.password)
                   THEN Fails(p, "INVALID_CREDENTIALS")
                   ELSE IF ~u.isActive THEN Fails(p, "ACCOUNT_DEACTIVATED")
                   ELSE IF ~PreHasOwnProfile(p, u)
                   THEN Fails(p, "PROFILE_NOT_FOUND")
                   ELSE /\ p.res.kind = "ok"
                        /\ p.res.userId = u.id
                        /\ p.res.email = u.email
                        /\ p.res.userType = u.userType

\* What a failed login shows its caller.
Shown(p) == [kind |-> p.res.kind, code |-> p.res.code, message |-> p.res.message]

\* C20 as claimed: a login attempt with a password that does not match yields
\* the same error code and the same message whether or not a User with the
\* given email exists: the attempt on an email no user has and the attempt on
\* an email some user has show the same, INVALID_CREDENTIALS with one text.
C20_AsClaimed ==
    \A t1, t2 \in Tasks :
        LET p == procs[t1]
            q == procs[t2]
        IN  (/\ Ended(p, "login") /\ p.solo /\ LoginUser(p) = NoUser
             /\ Ended(q, "login") /\ q.solo /\ LoginUser(q) # NoUser
             /\ ~verifyPassword(q.in.password, LoginUser(q).password)) =>
                /\ Shown(q) = Shown(p)
                /\ Fails(q, "INVALID_CREDENTIALS")

\* C20, amended: for two stores that differ only in whether a User with the
\* given email, one that has a password, exists, a login attempt with a
\* password that does not match yields the same error code and the same
\* message in both (INVALID_CREDENTIALS, identical text); for a User without
\* password the attempt ends with NO_PASSWORD, whatever the password.
C20_NoEnumeration ==
    \A t1, t2 \in Tasks :
        LET p == procs[t1]
            q == procs[t2]
        IN  (/\ Ended(p, "login") /\ p.solo /\ LoginUser(p) = NoUser
             /\ Ended(q, "login") /\ q.solo /\ LoginUser(q) # NoUser
             /\ ~verifyPassword(q.in.password, LoginUser(q).password)) =>
                IF LoginUser(q).password = Null
                THEN Fails(q, "NO_PASSWORD")
                ELSE /\ Shown(q) = Shown(p)
                     /\ Fails(q, "INVALID_CREDENTIALS")

\* One attempt on an email no user has and one, with a wrong password, on the
\* email of a registered user: both have failed.
C20_Witness ==
    \E t1, t2 \in Tasks :
        LET p == procs[t1]
            q == procs[t2]
        IN  /\ Ended(p, "login") /\ p.solo /\ LoginUser(p) = NoUser
            /\ Ended(q, "login") /\ q.solo
            /\ LoginUser(q) # NoUser
            /\ LoginUser(q).password # Null
            /\ ~verifyPassword(q.in.password, LoginUser(q).password)
            /\ p.in.password = q.in.password
            /\ Shown(q) = Shown(p)
            /\ p.res.message # ""

(***************************************************************************)
(* Claims about ID verification.  p.company is the profile the call        *)
(* loaded, p.response the raw response of its provider call.               *)
(***************************************************************************)
VerifyFails(p, code) ==
    p.res.kind = "IdVerificationError" /\ p.res.code = code

\* The company row of user userId in a set of rows.
CompanyOf(rows, userId) == First({c \in rows : c.userId = userId}, NoCompany)

\* The address a normalized result carries: address, or the branchAddress a
\* company record is standardized to.
NormalizedAddress(verificationResult) ==
    IF verificationResult.data.address # <<>>
    THEN verificationResult.data.address
    ELSE verificationResult.data.branchAddress

\* The normalized result is valid and its company name and address equal the
\* stored ones, case-insensitively.
Reconciled(company, verificationResult) ==
    /\ verificationResult.isValid
    /\ verificationResult.data.company_name # <<>>
    /\ ToLowerCase(verificationResult.data.company_name)
           = ToLowerCase(company.companyName)
    /\ NormalizedAddress(verificationResult) # <<>>
    /\ ToLowerCase(NormalizedAddress(verificationResult))
           = ToLowerCase(company.address)

\* C21: verifyId on the registration-number path, for a company user with a
\* Company Profile and a well-formed number no other user claims: when the
\* provider response normalizes to valid and the normalized company name and
\* address equal the stored profile fields case-insensitively, verifyId
\* succeeds and the profile's registration number afterwards is the supplied
\* number; when the provider reports invalid or the name or the address does
\* not match, verifyId fails with VERIFICATION_FAILED and the profile is
\* unchanged.
C21_RcVerification ==
    \A t \in Tasks :
        LET p == procs[t]
            verificationResult == transform(p.response)
        IN  (/\ Ended(p, "verifyId") /\ p.solo
             /\ p.in.idType = "rc_number" /\ p.providerCalls = 1) =>
                IF Reconciled(CompanyOf(p.pre.companies, p.in.userId),
                              verificationResult)
                THEN /\ p.res.kind = "ok"
                     /\ CompanyOf(companies, p.in.userId).rcNumber = p.in.idNumber
                ELSE /\ VerifyFails(p, "VERIFICATION_FAILED")
                     /\ companies = p.pre.companies

\* The error codes the spec lists for verifyId.
VerifyIdCodes ==
    {"USER_NOT_FOUND", "INVALID_ID_TYPE", "INVALID_RC_FORMAT",
     "PROFILE_NOT_FOUND", "RC_NUMBER_EXISTS", "NATIONAL_ID_EXISTS",
     "VERIFICATION_FAILED", "UNSUPPORTED_ID_TYPE"}

\* The users whose profile carried the ID number when the call started.
NationalIdHolders(p) ==
    {q.userId : q \in {x \in p.pre.profiles : x.idNumber = p.in.idNumber}}

\* The call is on the national-ID path: its user exists and may use that type.
OnNationalIdPath(p) ==
    /\ p.in.idType = "nigerian_national_id"
    /\ \E u \in p.pre.users :
           u.id = p.in.userId /\ p.in.idType \in VALID_ID_TYPES(u.userType)

\* C22: every domain error verifyId raises carries a code of the taxonomy
\* {USER_NOT_FOUND, INVALID_ID_TYPE, INVALID_RC_FORMAT, PROFILE_NOT_FOUND,
\* RC_NUMBER_EXISTS, NATIONAL_ID_EXISTS, VERIFICATION_FAILED,
\* UNSUPPORTED_ID_TYPE}; on the national-ID path a number a different user
\* already claims yields NATIONAL_ID_EXISTS, and the same user submitting its
\* own number again is not rejected for it.
C22_ErrorTaxonomy ==
    \A t \in Tasks :
        LET p == procs[t] IN
        Ended(p, "verifyId") =>
            /\ p.res.kind = "IdVerificationError" => p.res.code \in VerifyIdCodes
            /\ (p.solo /\ OnNationalIdPath(p)) =>
                   IF NationalIdHolders(p) \ {p.in.userId} # {}
                   THEN VerifyFails(p, "NATIONAL_ID_EXISTS")
                   ELSE p.res.code \notin {"NATIONAL_ID_EXISTS",
                                           "NIGERIAN_NATIONAL_ID_EXISTS"}

\* The user a verifyId call is for, in the store it started from.
VerifyIdUser(p) == First({u \in p.pre.users : u.id = p.in.userId}, NoUser)

\* The ID types the static table permits: a company its registration number,
\* an individual and a rider the national ID.
Permitted(userType) ==
    IF userType = "logistics_company" THEN {"rc_number"}
    ELSE IF userType \in {"individual", "rider"} THEN {"nigerian_national_id"}
    ELSE {}

\* C23: verifyId fails with USER_NOT_FOUND when the user does not exist, and
\* with INVALID_ID_TYPE exactly when the user exists and the ID type is not
\* permitted for its user type (a company: the registration number only; an
\* individual and a rider: the national ID only); in both cases the provider
\* is never called and no store is changed.
C23_ApplicabilityFirst ==
    \A t \in Tasks :
        LET p == procs[t]
            u == VerifyIdUser(p)
        IN  (Ended(p, "verifyId") /\ p.solo) =>
                /\ u = NoUser => VerifyFails(p, "USER_NOT_FOUND")
                /\ u # NoUser =>
                       (VerifyFails(p, "INVALID_ID_TYPE")
                           <=> p.in.idType \notin Permitted(u.userType))
                /\ (VerifyFails(p, "USER_NOT_FOUND")
                        \/ VerifyFails(p, "INVALID_ID_TYPE")) =>
                       /\ p.providerCalls = 0
                       /\ Store = p.pre

\* One call was refused for its ID type and another for its user, neither
\* having called the provider.
C23_Witness ==
    /\ \E t \in Tasks : /\ Ended(procs[t], "verifyId")
                        /\ VerifyFails(procs[t], "INVALID_ID_TYPE")
                        /\ procs[t].providerCalls = 0
    /\ \E t \in Tasks : /\ Ended(procs[t], "verifyId")
                        /\ VerifyFails(procs[t], "USER_NOT_FOUND")
                        /\ procs[t].in.userId \notin {u.id : u \in users}

\* C24: transport failures never escape the live Verification Provider: when
\* every HTTP attempt of a verification call fails, verifyNIN and
\* verifyRCNumber return a response that transform turns into isValid = FALSE
\* instead of throwing, so that verifyId ends with VERIFICATION_FAILED, not
\* with an untyped error, and leaves every store unchanged.
C24_TransportFailureContained ==
    \A t \in Tasks :
        LET p == procs[t] IN
        (Ended(p, "verifyId") /\ p.raised) =>
            /\ ~transform(p.response).isValid
            /\ VerifyFails(p, "VERIFICATION_FAILED")
            /\ p.solo => Store = p.pre

\* The HTTP call failed under a registration-number call and under a
\* national-ID call, and both calls have ended.
C24_Witness ==
    \E t1, t2 \in Tasks :
        /\ Ended(procs[t1], "verifyId") /\ procs[t1].raised
        /\ procs[t1].in.idType = "rc_number"
        /\ Ended(procs[t2], "verifyId") /\ procs[t2].raised
        /\ procs[t2].in.idType = "nigerian_national_id"

\* The call is on the registration-number path: its user exists and is a company.
OnRcPath(p) ==
    /\ p.op = "verifyId" /\ p.in.idType = "rc_number"
    /\ VerifyIdUser(p) # NoUser
    /\ VerifyIdUser(p).userType = "logistics_company"

SixDigits(n) ==
    /\ Len(n) = 6
    /\ \A i \in 1 .. Len(n) :
           n[i] \in {"0", "1", "2", "3", "4", "5", "6", "7", "8", "9"}

\* The result is valid and carries the company's name and address.
PassedCrossChecks(company, verificationResult) ==
    /\ verificationResult.isValid
    /\ verificationResult.data.company_name # <<>>
    /\ ToLowerCase(verificationResult.data.company_name)
           = ToLowerCase(company.companyName)
    /\ verificationResult.data.address # <<>>
    /\ ToLowerCase(verificationResult.data.address)
           = ToLowerCase(company.address)

\* C25: on the registration-number path the checks run in the order format,
\* profile present, number not claimed by another user; each rejection
\* (INVALID_RC_FORMAT, PROFILE_NOT_FOUND, RC_NUMBER_EXISTS) happens before any
\* provider call and with no store change; a number already on the requesting
\* user's own profile does not cause RC_NUMBER_EXISTS; the provider is called
\* at most once per verifyId; and the profile is written only after the
\* provider result has passed every cross-check.
C25_RcCheckOrder ==
    \A t \in Tasks :
        LET p == procs[t]
            company == CompanyOf(p.pre.companies, p.in.userId)
            others == {c \in p.pre.companies : /\ c.rcNumber = p.in.idNumber
                                               /\ c.userId # p.in.userId}
        IN  OnRcPath(p) =>
                /\ p.providerCalls <= 1
                /\ (p.solo /\ p.pc # "done") => Store = p.pre
                /\ (p.pc = "updateByUserId" \/ (p.pc = "done" /\ p.res.kind = "ok")) =>
                       /\ p.providerCalls = 1
                       /\ PassedCrossChecks(p.company, transform(p.response))
                /\ (/\ p.pc = "done"
                     /\ p.res.code \in {"INVALID_RC_FORMAT", "PROFILE_NOT_FOUND",
                                         "RC_NUMBER_EXISTS"}) =>
                       /\ p.providerCalls = 0
                       /\ p.solo => Store = p.pre
                /\ (p.pc = "done" /\ p.solo) =>
                       IF ~SixDigits(p.in.idNumber)
                       THEN VerifyFails(p, "INVALID_RC_FORMAT")
                       ELSE IF company = NoCompany
                       THEN VerifyFails(p, "PROFILE_NOT_FOUND")
                       ELSE IF others # {}
                       THEN VerifyFails(p, "RC_NUMBER_EXISTS")
                       ELSE p.providerCalls = 1

\* A company verified the number its own profile already carried, and a call
\* with a number of another company was refused before any provider call.
C25_Witness ==
    \E t1, t2 \in Tasks :
        /\ Ended(procs[t1], "verifyId") /\ procs[t1].res.kind = "ok"
        /\ procs[t1].company.rcNumber = procs[t1].in.idNumber
        /\ procs[t1].providerCalls = 1
        /\ Ended(procs[t2], "verifyId")
        /\ VerifyFails(procs[t2], "RC_NUMBER_EXISTS")
        /\ procs[t2].providerCalls = 0

(***************************************************************************)
(* Claims about sign-in: what a successful or failed call leaves behind.   *)
(***************************************************************************)

\* C26: whenever authenticateWithOAuth succeeds and returns userId u for
\* (provider, providerAccountId), the OAuthIdentity store afterwards contains
\* a row that binds exactly that pair to u, also when u already had a
\* different account of the same provider linked.
C26_SuccessIsBound ==
    \A t \in Tasks :
        LET p == procs[t] IN
        (Ended(p, "authenticateWithOAuth") /\ p.solo /\ p.res.kind = "ok") =>
            [userId |-> p.res.userId, provider |-> p.in.provider,
             providerAccountId |-> p.in.providerAccountId] \in identities

\* The registration of task r succeeded and the account it created (the user
\* and its profile) was in the store when the call of p started.
RegisteredBefore(r, p) ==
    /\ r.op \in {"registerIndividual", "registerCompany"}
    /\ r.pc = "done" /\ r.res.kind = "ok"
    /\ \E u \in p.pre.users : u.id = r.res.userId /\ PreHasOwnProfile(p, u)

\* C27: register-then-login round trip: for every account created by a
\* successful registerIndividual or registerCompany, a later login with the
\* registered email, in any letter case, and the registered password succeeds
\* and returns that account's userId and userType, as long as the account is
\* active.
C27_RegisterThenLogin ==
    \A t, x \in Tasks :
        LET p == procs[t]
            r == procs[x]
            u == First({v \in users : v.id = r.res.userId}, NoUser)
        IN  (/\ Ended(p, "login") /\ p.solo
             /\ RegisteredBefore(r, p)
             /\ ToLowerCase(p.in.email) = ToLowerCase(r.in.email)
             /\ p.in.password = r.in.password
             /\ u.isActive) =>
                /\ p.res.kind = "ok"
                /\ p.res.userId = u.id
                /\ p.res.userType = u.userType

\* C28: authenticateWithOAuth is all-or-nothing on failure: whenever it ends
\* with an OAuthAuthError (PROFILE_NOT_FOUND or OAUTH_ACCOUNT_LINKED), the
\* User, Profile and OAuthIdentity stores equal their state before the call,
\* including when the assertion's email belongs to an existing company user.
C28_FailureLeavesNoTrace ==
    \A t \in Tasks :
        LET p == procs[t] IN
        (/\ Ended(p, "authenticateWithOAuth") /\ p.solo
         /\ p.res.kind = "OAuthAuthError"
         /\ p.res.code \in {"PROFILE_NOT_FOUND", "OAUTH_ACCOUNT_LINKED"}) =>
            /\ users = p.pre.users
            /\ profiles = p.pre.profiles
            /\ companies = p.pre.companies
            /\ identities = p.pre.identities

\* C29: no operation issues tokens for a deactivated account: for a User with
\* isActive = FALSE, login and authenticateWithOAuth (through the returning
\* identity and through the email match) end in an error and return no tokens.
C29_NoTokensWhenDeactivated ==
    \A t \in Tasks :
        LET p == procs[t] IN
        (/\ p.op \in {"login", "authenticateWithOAuth"}
         /\ p.pc = "done" /\ p.res.kind = "ok") =>
            \A u \in users : u.id = p.res.userId => u.isActive

(***************************************************************************)
(* A claim about the retry sets of one call of the request client.         *)
(***************************************************************************)

\* The call supplied its own retryableStatusCodes or retryableErrors.
SuppliesOwnSets(retry) ==
    /\ retry.present
    /\ \/ retry.retryableStatusCodes # UndefinedStatusCodes
       \/ retry.retryableErrors # UndefinedErrors

\* A failed attempt is one that the sets in force for the call name: the
\* per-call set where the call gave one, the default where it did not.
NamedByCallSets(retry, failure) ==
    LET statusCodes == IF retry.retryableStatusCodes # UndefinedStatusCodes
                       THEN retry.retryableStatusCodes
                       ELSE DefaultRetryableStatusCodes
        errors == IF retry.retryableErrors # UndefinedErrors
                  THEN retry.retryableErrors
                  ELSE DefaultRetryableErrors
    IN  /\ failure.type = "axios"
        /\ \/ failure.status # 0 /\ failure.status \in statusCodes
           \/ failure.code # "" /\ failure.code \in errors

\* C30: when a call supplies its own retry.retryableStatusCodes or
\* retry.retryableErrors, those per-call sets, not the defaults, decide
\* whether a failed attempt is retried: with retry enabled and a retry left,
\* a failed first attempt is followed by a second one exactly when the
\* failure is named by the sets of the call.
C30_PerCallSetsDecide ==
    (/\ rq # NoRequest
     /\ SuppliesOwnSets(rq.retry)
     /\ RetryEnabled(rq.retry)
     /\ MaxRetriesOf(rq.retry) >= 1
     /\ rq.script[1] \in Failures) =>
        (rq.result.attempts >= 2 <=> NamedByCallSets(rq.retry, rq.script[1]))

====
